---- MODULE Spec2Model ----
(***************************************************************************)
(* A model of the coverage-improvement pipeline: the agent contract        *)
(* (src/agents/base_agent.py), the five agents, the five workflow nodes    *)
(* and the router (src/workflow/nodes.py), the graph wiring                *)
(* (src/workflow/graph.py) and the background runner with its registry     *)
(* (src/api/routes/workflow.py).                                           *)
(*                                                                         *)
(* Modelling conventions                                                   *)
(*  - a Python dict is a function whose DOMAIN is the set of keys present; *)
(*  - an Optional value is a sequence of length <= 1 (<<>> is None);       *)
(*  - a message (a Python str built by an f-string) is the sequence of its *)
(*    non-empty fragments, so <<>> is the empty string "";                 *)
(*  - an exception is a record [kind, msg];                                *)
(*  - the outcome of a call is [raised |-> FALSE, result |-> r] or         *)
(*    [raised |-> TRUE, kind |-> k, msg |-> m].                            *)
(* The configuration (get_settings) is assumed loaded and valid.           *)
(***************************************************************************)
EXTENDS Integers, Sequences, FiniteSets, TLC

VARIABLES
    workflows,    \* api/routes/workflow.py:15, the registry: workflow_id -> entry
    pc,           \* position of the run: init, pending, running, returned, raised, done
    state,        \* the WorkflowState of the run (compiled_workflow.invoke)
    current,      \* the node the executor runs next, or END
    exc,          \* Optional: the exception that unwound invoke
    trace,        \* history: the nodes executed, in order
    outcomes,     \* history: per executed node, "ok" | "failed" | "raised"
    extFailed,    \* history: some external collaborator call of the run failed
    agentPc,      \* position of one BaseAgent.run call: ready, executing, returned
    agentCtx,     \* the context handed to run
    agentExec,    \* Optional: what execute did (returned a result or raised)
    agentRes,     \* Optional: what run returned
    fn,           \* one call of a function: [op |-> its name, ... its arguments]
    fnOut,        \* the values the call returned so far, in order
    rtPc,         \* position of one call of the retry wrapper
    rtCfg,        \* the arguments of retry(...)
    rtAttempt,    \* wrapper: attempt
    rtDelay,      \* wrapper: current_delay
    rtLast,       \* wrapper: last_exception (Optional)
    rtCalls,      \* history: what each invocation of func did
    rtSleeps,     \* history: the argument of each time.sleep
    rtResult,     \* Optional: what the wrapper returned or raised
    servers,      \* per server process, its module-level registry `workflows`
    tasks,        \* workflow_id -> the background task of that run and its position
    workspaces,   \* the directories under ./workspaces: name -> the run that cloned it
    cancelled,    \* history: the ids for which cancel_workflow returned 200
    apiOp         \* history: the last operation, its run, its process, its response

vars == <<workflows, pc, state, current, exc, trace, outcomes, extFailed,
          agentPc, agentCtx, agentExec, agentRes, fn, fnOut,
          rtPc, rtCfg, rtAttempt, rtDelay, rtLast, rtCalls, rtSleeps, rtResult,
          servers, tasks, workspaces, cancelled, apiOp>>

apiVars == <<servers, tasks, workspaces, cancelled, apiOp>>

fnVars == <<fn, fnOut>>

retryVars == <<rtPc, rtCfg, rtAttempt, rtDelay, rtLast, rtCalls, rtSleeps, rtResult>>

libVars == <<fn, fnOut, rtPc, rtCfg, rtAttempt, rtDelay, rtLast, rtCalls, rtSleeps, rtResult>>

wfVars == <<workflows, pc, state, current, exc, trace, outcomes, extFailed>>

agentVars == <<agentPc, agentCtx, agentExec, agentRes>>

----------------------------------------------------------------------------
(* Bounds of the model *)

\* the largest number of files the coverage server reports as uncovered
MaxFiles == 2

\* the largest max_attempts handed to the retry wrapper
MaxAttempts == 3

----------------------------------------------------------------------------
(* Python values *)

None == <<>>

Some(v) == <<v>>

EmptyDict == [k \in {} |-> 0]

\* d.get(k): Optional
Get(d, k) == IF k \in DOMAIN d THEN Some(d[k]) ELSE None

\* d.get(k, default)
GetOr(d, k, default) == IF k \in DOMAIN d THEN d[k] ELSE default

\* seq[:n]
Take(seq, n) == SubSeq(seq, 1, IF Len(seq) < n THEN Len(seq) ELSE n)

Returned(r) == [raised |-> FALSE, result |-> r]

Raised(kind, msg) == [raised |-> TRUE, kind |-> kind, msg |-> msg]

\* a merge whose errors channel appends instead of overwriting
MergeAppendingErrors(s, p) ==
    [k \in (DOMAIN s) \cup (DOMAIN p) |->
        IF k \in DOMAIN p
        THEN IF k = "errors" /\ k \in DOMAIN s THEN s[k] \o p[k] ELSE p[k]
        ELSE s[k]]

\* a merge in which a key already present keeps its prior value
MergeKeepingPrior(s, p) ==
    [k \in (DOMAIN s) \cup (DOMAIN p) |-> IF k \in DOMAIN s THEN s[k] ELSE p[k]]

\* dict.update / the executor's per-key overwrite of the state channels
Merge(s, p) ==
    [k \in (DOMAIN s) \cup (DOMAIN p) |-> IF k \in DOMAIN p THEN p[k] ELSE s[k]]

\* str(KeyError(k)) is the repr of the key
KeyError(k) == Raised("KeyError", <<"'", k, "'">>)

----------------------------------------------------------------------------
(* src/agents/base_agent.py *)

PENDING == "pending"

RUNNING == "running"

SUCCESS == "success"

FAILED == "failed"

SKIPPED == "skipped"

AgentStatus == {PENDING, RUNNING, SUCCESS, FAILED, SKIPPED}

\* AgentResult.__init__: data and metadata default to {}, error to None
AgentResult(status, data, error, metadata) ==
    [status |-> status, data |-> data, error |-> error, metadata |-> metadata]

\* a test that also counts a skipped result as a success
is_success_or_skipped(result) == result.status \in {SUCCESS, SKIPPED}

is_success(result) == result.status = SUCCESS

\* a list that stops at the first missing key
missing_keys_first_only(context, required_keys) ==
    Take(SelectSeq(required_keys, LAMBDA key : key \notin DOMAIN context), 1)

\* validate_context: None when nothing is missing, else the ValueError raised
missing_keys(context, required_keys) ==
    SelectSeq(required_keys, LAMBDA key : key \notin DOMAIN context)

validate_context(name, context, required_keys) ==
    IF missing_keys(context, required_keys) # <<>>
    THEN Some([kind |-> "ValueError",
               msg |-> <<name, " missing required context keys: ">>
                       \o missing_keys(context, required_keys)])
    ELSE None

\* a run that drops the kind of the exception it converts
RunWithoutKind(executed) ==
    IF executed.raised
    THEN AgentResult(FAILED, EmptyDict, Some(executed.msg), EmptyDict)
    ELSE executed.result

\* a run that converts the exception into a FAILED result without its message
RunDroppingError(executed) ==
    IF executed.raised
    THEN AgentResult(FAILED, EmptyDict, None, [exception_type |-> executed.kind])
    ELSE executed.result

\* BaseAgent.run around the outcome of self.execute(context)
Run(executed) ==
    IF executed.raised
    THEN AgentResult(FAILED, EmptyDict, Some(executed.msg),
                     [exception_type |-> executed.kind])
    ELSE executed.result

----------------------------------------------------------------------------
(* Configuration values the nodes read (src/config/schema.py defaults) *)

BaseBranch == "main"

BranchPrefix == "coverage-improvement"

OrganizationUrl == "https://dev.azure.com/org"

Project == "proj"

TestDirectory == "tests"

\* WorkflowConfig.max_tests_per_file
MaxTestsPerFile == 10

\* LLMFactory._providers
RegisteredProviders == {"openai"}

\* the error of a failed external call (git, HTTP, SDK), as a str fragment
ExtError == "external error"

Unwrap(opt) == opt[1]

RaiseOf(e) == Raised(e.kind, e.msg)

----------------------------------------------------------------------------
(* src/agents/git_agent.py.  repo is self.repo (FALSE: None); git is the   *)
(* outcome of the git command the operation issues, "ok" or "error".      *)

clone_repository(context, git) ==
    LET v == validate_context("GitAgent", context, <<"repo_url", "local_path">>)
    IN  IF v # None THEN RaiseOf(Unwrap(v))
        ELSE IF git = "ok"
        THEN Returned(AgentResult(SUCCESS,
                 [repo_path |-> context["local_path"], current_branch |-> BaseBranch],
                 None, [operation |-> "clone"]))
        ELSE Raised("AgentError", <<"Failed to clone repository: ", ExtError>>)

\* a create_branch that works on an instance that has not cloned
create_branch_without_repo_check(repo, context, git) ==
    IF git = "ok"
    THEN Returned(AgentResult(SUCCESS,
             [branch_name |-> <<BranchPrefix, "-">> \o GetOr(context, "timestamp", <<>>)],
             None, [operation |-> "create_branch"]))
    ELSE Raised("AgentError", <<"Failed to create branch: ", ExtError>>)

create_branch(repo, context, git) ==
    IF ~repo
    THEN Raised("AgentError", <<"Repository not initialized. Run clone operation first.">>)
    ELSE IF git = "ok"
    THEN Returned(AgentResult(SUCCESS,
             [branch_name |-> IF GetOr(context, "branch_name", <<>>) # <<>>
                              THEN context["branch_name"]
                              ELSE <<BranchPrefix, "-">> \o GetOr(context, "timestamp", <<>>)],
             None, [operation |-> "create_branch"]))
    ELSE Raised("AgentError", <<"Failed to create branch: ", ExtError>>)

\* git: "ok", "nothing" (the index equals HEAD) or "error"
commit_changes(repo, context, git) ==
    IF ~repo
    THEN Raised("AgentError", <<"Repository not initialized. Run clone operation first.">>)
    ELSE LET v == validate_context("GitAgent", context, <<"commit_message">>)
         IN  IF v # None THEN RaiseOf(Unwrap(v))
             ELSE IF git = "error"
             THEN Raised("AgentError", <<"Failed to commit changes: ", ExtError>>)
             ELSE IF git = "nothing"
             THEN Returned(AgentResult(SKIPPED, [message |-> "No changes to commit"],
                                       None, [operation |-> "commit"]))
             ELSE Returned(AgentResult(SUCCESS,
                      [commit_sha |-> "sha", commit_message |-> context["commit_message"]],
                      None, [operation |-> "commit"]))

push_changes(repo, context, git) ==
    IF ~repo
    THEN Raised("AgentError", <<"Repository not initialized. Run clone operation first.">>)
    ELSE IF git = "ok"
    THEN Returned(AgentResult(SUCCESS, [pushed_branch |-> "branch"],
                              None, [operation |-> "push"]))
    ELSE Raised("AgentError", <<"Failed to push changes: ", ExtError>>)

\* GitAgent.execute: dispatch on context.get("operation", "clone"); re-raises
GitExecute(repo, context, git) ==
    LET operation == GetOr(context, "operation", "clone")
    IN  CASE operation = "clone" -> clone_repository(context, git)
          [] operation = "create_branch" -> create_branch(repo, context, git)
          [] operation = "commit" -> commit_changes(repo, context, git)
          [] operation = "push" -> push_changes(repo, context, git)
          [] OTHER -> Raised("AgentError", <<"Unknown operation: ", operation>>)

----------------------------------------------------------------------------
(* src/agents/sonar_agent.py.  A response is [failed |-> TRUE] (a          *)
(* RequestException) or [failed |-> FALSE, ...] with the decoded payload:  *)
(* the list of measures, or the list of components.  An entry of a payload *)
(* is a dict and can lack a key the code subscripts.                       *)

\* _fetch_metrics: the measures of the component, by metric key; only a
\* RequestException is turned into an AgentError, a KeyError leaves as it is
fetch_metrics(response) ==
    IF response.failed
    THEN Raised("AgentError", <<"Failed to fetch metrics: ", ExtError>>)
    ELSE LET measures == response.measures
             keys == {measures[i]["metric"] :
                         i \in {j \in 1..Len(measures) : "metric" \in DOMAIN measures[j]}}
         IN  IF \E i \in 1..Len(measures) : "metric" \notin DOMAIN measures[i]
             THEN KeyError("metric")
             ELSE Returned([k \in keys |->
                      LET last == CHOOSE i \in 1..Len(measures) :
                                      /\ measures[i]["metric"] = k
                                      /\ \A j \in (i + 1)..Len(measures) :
                                             measures[j]["metric"] # k
                      IN  GetOr(measures[last], "value", 0)])

RECURSIVE SumUncovered(_)
SumUncovered(files) ==
    IF files = <<>> THEN 0
    ELSE files[1]["uncovered_area"] + SumUncovered(Tail(files))

UncoveredFile(component) ==
    [path |-> component.path, coverage |-> component.coverage,
     uncovered_area |-> component.uncovered_lines, language |-> component.language]

\* _fetch_coverage_details: a failed request is swallowed into empty data; the
\* KeyError of component["path"] is not a RequestException and leaves as it is
fetch_coverage_details(response) ==
    IF response.failed
    THEN Returned([uncovered_files |-> <<>>, uncovered_lines |-> 0])
    ELSE IF \E i \in 1..Len(response.components) :
                "path" \notin DOMAIN response.components[i]
    THEN KeyError("path")
    ELSE LET incomplete == SelectSeq(response.components, LAMBDA c : c.coverage < 100)
             files == [i \in 1..Len(incomplete) |-> UncoveredFile(incomplete[i])]
         IN  Returned([uncovered_files |-> files, uncovered_lines |-> SumUncovered(files)])

SonarExecute(context, metricsResponse, detailsResponse) ==
    LET v == validate_context("SonarQubeAgent", context, <<"project_key">>)
        m == fetch_metrics(metricsResponse)
        d == fetch_coverage_details(detailsResponse)
    IN  IF v # None THEN RaiseOf(Unwrap(v))
        ELSE IF m.raised
        THEN Raised("AgentError", <<"SonarQube API error: ">> \o m.msg)
        ELSE IF d.raised
        THEN Raised("AgentError", <<"SonarQube API error: ">> \o d.msg)
        ELSE Returned(AgentResult(SUCCESS,
                 [project_key |-> context["project_key"],
                  coverage |-> GetOr(m.result, "coverage", 0),
                  metrics |-> m.result,
                  uncovered_lines |-> d.result["uncovered_lines"],
                  uncovered_files |-> d.result["uncovered_files"]],
                 None, [sonar_url |-> "sonar"]))

----------------------------------------------------------------------------
(* src/agents/analyzer_agent.py *)

TestCandidate(repo_path, file_info) ==
    [file_path |-> repo_path \o <<"/", file_info["path"]>>,
     uncovered_area |-> file_info["uncovered_area"],
     language |-> GetOr(file_info, "language", "unknown")]

AnalyzerExecute(context) ==
    LET v == validate_context("AnalyzerAgent", context, <<"repo_path", "uncovered_files">>)
    IN  IF v # None THEN RaiseOf(Unwrap(v))
        ELSE LET files == context["uncovered_files"]
                 test_candidates ==
                     [i \in 1..Len(files) |-> TestCandidate(context["repo_path"], files[i])]
             IN  IF \E i \in 1..Len(files) : "path" \notin DOMAIN files[i]
                 THEN Raised("AgentError", <<"Analysis error: ", "'", "path", "'">>)
                 ELSE Returned(AgentResult(SUCCESS,
                          [test_candidates |-> test_candidates,
                           total_candidates |-> Len(test_candidates)],
                          None, [analyzed_files |-> Len(test_candidates)]))

----------------------------------------------------------------------------
(* src/agents/test_gen_agent.py.  gen is the outcome of reading the        *)
(* source, asking the language model and writing the file: "ok",          *)
(* "read_error", "llm_error" or "write_error".                            *)

TestFilePath(repo_path, candidate) ==
    repo_path \o <<"/", TestDirectory, "/test_">> \o candidate["file_path"]

TestGenExecute(context, gen) ==
    LET v == validate_context("TestGeneratorAgent", context, <<"test_candidates", "repo_path">>)
    IN  IF v # None THEN RaiseOf(Unwrap(v))
        ELSE LET candidates_to_process ==
                     Take(context["test_candidates"], GetOr(context, "max_tests", 10))
                 n == Len(candidates_to_process)
             IN  IF \E i \in 1..n : "name" \notin DOMAIN candidates_to_process[i]
                 THEN \* candidate['name'] inside the try block
                      Raised("AgentError", <<"Test generation error: ", "'", "name", "'">>)
                 ELSE IF n > 0 /\ gen = "read_error"
                 THEN Raised("AgentError",
                          <<"Test generation error: ", "Failed to read source file: ", ExtError>>)
                 ELSE IF n > 0 /\ gen = "llm_error"
                 THEN Raised("AgentError",
                          <<"Test generation error: ", "LLM generation failed: ", ExtError>>)
                 ELSE IF n > 0 /\ gen = "write_error"
                 THEN Raised("AgentError",
                          <<"Test generation error: ", "Failed to write test file: ", ExtError>>)
                 ELSE Returned(AgentResult(SUCCESS,
                          [generated_tests |->
                               [i \in 1..n |->
                                   [function |-> candidates_to_process[i]["name"],
                                    test_file |-> TestFilePath(context["repo_path"],
                                                               candidates_to_process[i]),
                                    success |-> TRUE]],
                           test_files |->
                               [i \in 1..n |-> TestFilePath(context["repo_path"],
                                                            candidates_to_process[i])],
                           total_generated |-> n],
                          None, [framework |-> "pytest"]))

----------------------------------------------------------------------------
(* src/agents/pr_agent.py.  api is the outcome of create_pull_request.     *)

PrExecute(context, api) ==
    LET v == validate_context("PRAzureDevOpsAgent", context,
                              <<"repository_id", "source_branch", "pr_title">>)
    IN  IF v # None THEN RaiseOf(Unwrap(v))
        ELSE IF api = "ok"
        THEN Returned(AgentResult(SUCCESS,
                 [pr_id |-> 1,
                  pr_url |-> <<OrganizationUrl, "/", Project, "/_git/",
                               context["repository_id"], "/pullrequest/", "1">>,
                  source_branch |-> context["source_branch"],
                  target_branch |-> BaseBranch,
                  title |-> context["pr_title"]],
                 None, [repository |-> context["repository_id"]]))
        ELSE Raised("AgentError", <<"PR creation failed: ", ExtError>>)

----------------------------------------------------------------------------
(* src/llm/factory.py *)

\* LLMFactory.create: None when the provider is built, else the LLMError
LLMCreate(provider_name, init) ==
    IF provider_name \notin RegisteredProviders
    THEN Some([kind |-> "LLMError",
               msg |-> <<"Unknown LLM provider '", provider_name, "'">>])
    ELSE IF init # "ok"
    THEN Some([kind |-> "LLMError",
               msg |-> <<"Failed to create provider '", provider_name, "': ", ExtError>>])
    ELSE None

----------------------------------------------------------------------------
(* src/workflow/nodes.py.  A node returns its partial update or raises.    *)

\* [result.error]: the one-element errors list of a failure update
ListOf(x) == <<x>>

\* a failure update that leaves current_step as the previous node wrote it
FailureUpdateWithoutStep(result, step) ==
    [errors |-> ListOf(result.error), status |-> "failed"]

FailureUpdate(result, step) ==
    [errors |-> ListOf(result.error), status |-> "failed", current_step |-> step]

\* state["repo_url"].split("/")[-1].replace(".git", "")
RepoName(repo_url) == SelectSeq(repo_url.last, LAMBDA fragment : fragment # ".git")

\* a clone node that writes the token-bearing URL back over the caller's repo_url
clone_repository_node_rewriting_url(s, git) ==
    LET repo_name == RepoName(s["repo_url"])
        local_path == <<"workspaces/">> \o repo_name
        result == Run(GitExecute(FALSE,
                          [operation |-> "clone", repo_url |-> s["repo_url"],
                           local_path |-> local_path], git))
    IN  IF is_success(result)
        THEN Returned([repo_path |-> result.data["repo_path"],
                       repo_url |-> [base |-> "https://token@dev.azure.com/org/a/_git/",
                                     last |-> s["repo_url"].last],
                       current_step |-> "clone",
                       repository_id |-> repo_name])
        ELSE Returned(FailureUpdate(result, "clone"))

clone_repository_node(s, git) ==
    LET repo_name == RepoName(s["repo_url"])
        local_path == <<"workspaces/">> \o repo_name
        result == Run(GitExecute(FALSE,
                          [operation |-> "clone", repo_url |-> s["repo_url"],
                           local_path |-> local_path], git))
    IN  IF is_success(result)
        THEN Returned([repo_path |-> result.data["repo_path"],
                       current_step |-> "clone",
                       repository_id |-> repo_name])
        ELSE Returned(FailureUpdate(result, "clone"))

check_coverage_node(s, metricsResponse, detailsResponse) ==
    IF "sonar_project_key" \notin DOMAIN s THEN KeyError("sonar_project_key")
    ELSE LET result == Run(SonarExecute([project_key |-> s["sonar_project_key"]],
                                        metricsResponse, detailsResponse))
         IN  IF is_success(result)
             THEN Returned([coverage_before |-> result.data["coverage"],
                            coverage_metrics |-> result.data["metrics"],
                            uncovered_files |-> result.data["uncovered_files"],
                            current_step |-> "check_coverage"])
             ELSE Returned(FailureUpdate(result, "check_coverage"))

\* a router that compares with <= instead of <
should_generate_tests_inclusive(s) ==
    LET coverage == GetOr(s, "coverage_before", 0)
        threshold == GetOr(s, "coverage_threshold", 90)
    IN  IF coverage <= threshold THEN "analyze_code" ELSE "end"

\* a router with a third label for coverage above the threshold
should_generate_tests_three_way(s) ==
    LET coverage == GetOr(s, "coverage_before", 0)
        threshold == GetOr(s, "coverage_threshold", 90)
    IN  IF coverage < threshold THEN "analyze_code"
        ELSE IF coverage = threshold THEN "end" ELSE "skip"

should_generate_tests(s) ==
    LET coverage == GetOr(s, "coverage_before", 0)
        threshold == GetOr(s, "coverage_threshold", 90)
    IN  IF coverage < threshold THEN "analyze_code" ELSE "end"

analyze_code_node(s) ==
    IF "repo_path" \notin DOMAIN s THEN KeyError("repo_path")
    ELSE LET result == Run(AnalyzerExecute(
                               [repo_path |-> s["repo_path"],
                                uncovered_files |-> GetOr(s, "uncovered_files", <<>>)]))
         IN  IF is_success(result)
             THEN Returned([test_candidates |-> result.data["test_candidates"],
                            current_step |-> "analyze_code"])
             ELSE Returned(FailureUpdate(result, "analyze_code"))

\* provider: settings.llm.provider; init: outcome of the provider's constructor
generate_tests_node(s, provider, init, gen) ==
    LET llm == LLMCreate(provider, init)
    IN  IF llm # None THEN RaiseOf(Unwrap(llm))
        ELSE IF "test_candidates" \notin DOMAIN s THEN KeyError("test_candidates")
        ELSE IF "repo_path" \notin DOMAIN s THEN KeyError("repo_path")
        ELSE LET result == Run(TestGenExecute(
                                   [test_candidates |-> s["test_candidates"],
                                    repo_path |-> s["repo_path"],
                                    max_tests |-> MaxTestsPerFile], gen))
             IN  IF is_success(result)
                 THEN Returned([generated_tests |-> result.data["generated_tests"],
                                test_files |-> result.data["test_files"],
                                current_step |-> "generate_tests"])
                 ELSE Returned(FailureUpdate(result, "generate_tests"))

\* a create_pr_node whose GitAgent already holds the cloned repository
NewGitAgentRepoCloned == TRUE

\* the repo of the GitAgent create_pr_node constructs (git_agent.py:40)
NewGitAgentRepo == FALSE

\* a node that reports a pull request whatever its git operations returned
create_pr_node_ignoring_failures(s, ext) ==
    Returned([branch_name |-> <<BranchPrefix, "-", "now">>,
              pr_id |-> 1,
              pr_url |-> <<OrganizationUrl, "/", Project, "/_git/", "/pullrequest/", "1">>,
              status |-> "success",
              current_step |-> "create_pr"])

\* ext: the outcomes of branch, commit, push, the review client and its API
create_pr_node(s, ext) ==
    LET timestamp == <<"now">>
        branch_result == Run(GitExecute(NewGitAgentRepo,
                                 [operation |-> "create_branch",
                                  branch_name |-> <<BranchPrefix, "-">> \o timestamp,
                                  timestamp |-> timestamp], ext.branch))
    IN  IF ~is_success(branch_result)
        THEN Returned(FailureUpdate(branch_result, "create_pr"))
        ELSE IF "test_files" \notin DOMAIN s THEN KeyError("test_files")
        ELSE
        LET commit_result == Run(GitExecute(NewGitAgentRepo,
                                     [operation |-> "commit",
                                      commit_message |->
                                          "Add generated unit tests to improve code coverage",
                                      files_to_add |-> s["test_files"]], ext.commit))
        IN  IF ~is_success(commit_result) /\ commit_result.status # "skipped"
            THEN Returned(FailureUpdate(commit_result, "create_pr"))
            ELSE
            LET push_result == Run(GitExecute(NewGitAgentRepo,
                                       [operation |-> "push"], ext.push))
            IN  IF ~is_success(push_result)
                THEN Returned(FailureUpdate(push_result, "create_pr"))
                ELSE IF ext.client # "ok"
                THEN Raised("ConnectionError", <<ExtError>>)
                ELSE IF "repository_id" \notin DOMAIN s THEN KeyError("repository_id")
                ELSE
                LET pr_result == Run(PrExecute(
                                         [repository_id |-> s["repository_id"],
                                          source_branch |-> branch_result.data["branch_name"],
                                          pr_title |-> <<"Improve code coverage - ">> \o timestamp,
                                          pr_description |-> "Automated",
                                          test_files |-> s["test_files"],
                                          coverage_before |-> Get(s, "coverage_before")],
                                         ext.api))
                IN  IF is_success(pr_result)
                    THEN Returned([branch_name |-> branch_result.data["branch_name"],
                                   pr_id |-> pr_result.data["pr_id"],
                                   pr_url |-> pr_result.data["pr_url"],
                                   status |-> "success",
                                   current_step |-> "create_pr"])
                    ELSE Returned(FailureUpdate(pr_result, "create_pr"))

\* the agent calls create_pr_node makes, in the order made, with their results
create_pr_calls(s, ext) ==
    LET timestamp == <<"now">>
        branch_call ==
            [operation |-> "create_branch",
             result |-> Run(GitExecute(NewGitAgentRepo,
                                [operation |-> "create_branch",
                                 branch_name |-> <<BranchPrefix, "-">> \o timestamp,
                                 timestamp |-> timestamp], ext.branch))]
    IN  IF ~is_success(branch_call.result) THEN <<branch_call>>
        ELSE IF "test_files" \notin DOMAIN s THEN <<branch_call>>
        ELSE
        LET commit_call ==
                [operation |-> "commit",
                 result |-> Run(GitExecute(NewGitAgentRepo,
                                    [operation |-> "commit",
                                     commit_message |->
                                         "Add generated unit tests to improve code coverage",
                                     files_to_add |-> s["test_files"]], ext.commit))]
        IN  IF ~is_success(commit_call.result) /\ commit_call.result.status # "skipped"
            THEN <<branch_call, commit_call>>
            ELSE
            LET push_call ==
                    [operation |-> "push",
                     result |-> Run(GitExecute(NewGitAgentRepo,
                                        [operation |-> "push"], ext.push))]
            IN  IF ~is_success(push_call.result) \/ ext.client # "ok"
                       \/ "repository_id" \notin DOMAIN s
                THEN <<branch_call, commit_call, push_call>>
                ELSE <<branch_call, commit_call, push_call,
                       [operation |-> "create_pull_request",
                        result |-> Run(PrExecute(
                            [repository_id |-> s["repository_id"],
                             source_branch |-> branch_call.result.data["branch_name"],
                             pr_title |-> <<"Improve code coverage - ">> \o timestamp,
                             pr_description |-> "Automated",
                             test_files |-> s["test_files"],
                             coverage_before |-> Get(s, "coverage_before")],
                            ext.api))]>>

----------------------------------------------------------------------------
(* src/workflow/graph.py: create_workflow_graph *)

END == "__end__"

Nodes == {"clone_repository", "check_coverage", "analyze_code", "generate_tests",
          "create_pr"}

EntryPoint == "clone_repository"

\* a wiring whose edge out of generate_tests names a node nobody registered
StaticTargetMistyped ==
    [n \in {"clone_repository", "analyze_code", "generate_tests", "create_pr"} |->
        CASE n = "clone_repository" -> "check_coverage"
          [] n = "analyze_code" -> "generate_tests"
          [] n = "generate_tests" -> "create_pull_request"
          [] n = "create_pr" -> "__end__"]

\* a wiring whose last edge leads back to generate_tests instead of END
StaticTargetLooping ==
    [n \in {"clone_repository", "analyze_code", "generate_tests", "create_pr"} |->
        CASE n = "clone_repository" -> "check_coverage"
          [] n = "analyze_code" -> "generate_tests"
          [] n = "generate_tests" -> "create_pr"
          [] n = "create_pr" -> "generate_tests"]

\* add_edge(source, target)
StaticTarget ==
    [n \in {"clone_repository", "analyze_code", "generate_tests", "create_pr"} |->
        CASE n = "clone_repository" -> "check_coverage"
          [] n = "analyze_code" -> "generate_tests"
          [] n = "generate_tests" -> "create_pr"
          [] n = "create_pr" -> END]

\* add_conditional_edges("check_coverage", should_generate_tests, {...})
ConditionalTarget ==
    [n \in {"check_coverage"} |->
        [label \in {"analyze_code", "end"} |->
            IF label = "analyze_code" THEN "analyze_code" ELSE END]]

\* an executor that stops at the first failure update
NextNodeHaltingOnFailure(node, s) ==
    IF GetOr(s, "status", "") = "failed" THEN "__end__"
    ELSE IF node \in DOMAIN ConditionalTarget
    THEN ConditionalTarget[node][should_generate_tests(s)]
    ELSE IF node \in DOMAIN StaticTarget THEN StaticTarget[node] ELSE "__end__"

\* the node the executor runs after `node`, given the post-merge state
NextNode(node, s) ==
    IF node \in DOMAIN ConditionalTarget
    THEN ConditionalTarget[node][should_generate_tests(s)]
    ELSE IF node \in DOMAIN StaticTarget THEN StaticTarget[node] ELSE END

----------------------------------------------------------------------------
(* The inputs of a run and the answers of the external collaborators *)

WorkflowId == "w1"

RepoUrls ==
    {[base |-> "https://dev.azure.com/org/a/_git/", last |-> <<"repo", ".git">>],
     [base |-> "https://dev.azure.com/org/b/_git/", last |-> <<"repo">>],
     [base |-> "https://dev.azure.com/org/a/_git/", last |-> <<"other">>]}

\* WorkflowStartRequest: coverage_threshold is an int in 0..100
Requests ==
    [repo_url : RepoUrls, sonar_project_key : {"key"}, coverage_threshold : {0, 90}]

GitOutcomes == {"ok", "error"}

\* the last response has a measure without its "metric" key
MetricsResponses ==
    {[failed |-> TRUE]}
    \cup {[failed |-> FALSE, measures |-> <<>>]}
    \cup {[failed |-> FALSE, measures |-> <<[metric |-> "coverage", value |-> c]>>] :
              c \in {60, 90, 95}}
    \cup {[failed |-> FALSE, measures |-> <<[value |-> 60]>>]}

\* the last component lacks its "path" key
Components ==
    {[path |-> "a.py", coverage |-> 40, uncovered_lines |-> 3, language |-> "python"],
     [path |-> "b.py", coverage |-> 100, uncovered_lines |-> 0, language |-> "python"],
     [coverage |-> 40, uncovered_lines |-> 3, language |-> "python"]}

ComponentLists == UNION {[1..n -> Components] : n \in 0..MaxFiles}

DetailsResponses ==
    {[failed |-> TRUE]}
    \cup {[failed |-> FALSE, components |-> cs] : cs \in ComponentLists}

\* LLMProvider (config/schema.py)
ConfiguredProviders == {"openai", "anthropic"}

InitOutcomes == {"ok", "error"}

GenOutcomes == {"ok", "read_error", "llm_error", "write_error"}

PrOutcomes ==
    [branch : GitOutcomes, commit : {"ok", "nothing", "error"}, push : GitOutcomes,
     client : {"ok", "error"}, api : {"ok", "error"}]

PrAllOk(ext) ==
    /\ ext.branch = "ok" /\ ext.commit = "ok" /\ ext.push = "ok"
    /\ ext.client = "ok" /\ ext.api = "ok"

----------------------------------------------------------------------------
(* src/api/routes/workflow.py and the executor behind compiled_workflow    *)

\* start_workflow: a fresh entry, PENDING, and the background task is queued
StartWorkflow ==
    /\ pc = "init"
    /\ WorkflowId \notin DOMAIN workflows
    /\ \E request \in Requests :
          workflows' = Merge(workflows,
              [id \in {WorkflowId} |->
                  [workflow_id |-> WorkflowId, status |-> PENDING,
                   created_at |-> <<"now">>, request |-> request]])
    /\ pc' = "pending"
    /\ UNCHANGED <<state, current, exc, trace, outcomes, extFailed, agentVars, apiVars, libVars>>

\* run_workflow_background up to the call of invoke: RUNNING, the initial state
BackgroundBegin ==
    /\ pc = "pending"
    /\ workflows' = [workflows EXCEPT ![WorkflowId] =
                        Merge(@, [status |-> RUNNING])]
    /\ state' = [repo_url |-> workflows[WorkflowId].request.repo_url,
                 sonar_project_key |-> workflows[WorkflowId].request.sonar_project_key,
                 coverage_threshold |-> workflows[WorkflowId].request.coverage_threshold,
                 timestamp |-> <<"now">>,
                 workflow_id |-> WorkflowId,
                 errors |-> <<>>]
    /\ current' = EntryPoint
    /\ pc' = "running"
    /\ UNCHANGED <<exc, trace, outcomes, extFailed, agentVars, apiVars, libVars>>

IsFailureUpdate(update) == GetOr(update, "status", "") = "failed"

\* an executor that turns an exception of a node body into a failure update
ExecuteNodeSwallowing(node, out, ext) ==
    /\ pc = "running"
    /\ current = node
    /\ trace' = Append(trace, node)
    /\ extFailed' = (extFailed \/ ext)
    /\ LET update == IF out.raised
                     THEN [errors |-> <<out.msg>>, status |-> "failed"]
                     ELSE out.result
       IN  /\ state' = Merge(state, update)
           /\ current' = NextNode(node, Merge(state, update))
           /\ pc' = IF NextNode(node, Merge(state, update)) = END
                    THEN "returned" ELSE "running"
           /\ outcomes' = Append(outcomes,
                              IF out.raised THEN "raised"
                              ELSE IF IsFailureUpdate(update) THEN "failed" ELSE "ok")
    /\ UNCHANGED <<workflows, exc, agentVars, apiVars, libVars>>

\* one iteration of the executor: run the node, merge its update, follow the edge
ExecuteNode(node, out, ext) ==
    /\ pc = "running"
    /\ current = node
    /\ trace' = Append(trace, node)
    /\ extFailed' = (extFailed \/ ext)
    /\ IF out.raised
       THEN /\ pc' = "raised"
            /\ exc' = Some([kind |-> out.kind, msg |-> out.msg])
            /\ outcomes' = Append(outcomes, "raised")
            /\ UNCHANGED <<state, current>>
       ELSE /\ state' = Merge(state, out.result)
            /\ current' = NextNode(node, Merge(state, out.result))
            /\ pc' = IF NextNode(node, Merge(state, out.result)) = END
                     THEN "returned" ELSE "running"
            /\ outcomes' = Append(outcomes,
                               IF IsFailureUpdate(out.result) THEN "failed" ELSE "ok")
            /\ UNCHANGED exc
    /\ UNCHANGED <<workflows, agentVars, apiVars, libVars>>

CloneRepository ==
    \E git \in GitOutcomes :
        ExecuteNode("clone_repository", clone_repository_node(state, git), git # "ok")

CheckCoverage ==
    \E m \in MetricsResponses, d \in DetailsResponses :
        ExecuteNode("check_coverage", check_coverage_node(state, m, d),
                    fetch_metrics(m).raised \/ d.failed \/ fetch_coverage_details(d).raised)

AnalyzeCode ==
    ExecuteNode("analyze_code", analyze_code_node(state), FALSE)

GenerateTests ==
    \E provider \in ConfiguredProviders, init \in InitOutcomes, gen \in GenOutcomes :
        ExecuteNode("generate_tests", generate_tests_node(state, provider, init, gen),
                    provider \notin RegisteredProviders \/ init # "ok" \/ gen # "ok")

CreatePr ==
    \E ext \in PrOutcomes :
        ExecuteNode("create_pr", create_pr_node(state, ext), ~PrAllOk(ext))

\* a completion that reports every returned run as a success
BackgroundCompleteAlwaysSuccess ==
    /\ pc = "returned"
    /\ workflows' = [workflows EXCEPT ![WorkflowId] =
          Merge(@, [status |-> SUCCESS,
                    current_step |-> Get(state, "current_step"),
                    coverage_before |-> Get(state, "coverage_before"),
                    pr_url |-> Get(state, "pr_url"),
                    errors |-> GetOr(state, "errors", <<>>),
                    result |-> state])]
    /\ pc' = "done"
    /\ UNCHANGED <<state, current, exc, trace, outcomes, extFailed, agentVars, apiVars, libVars>>

\* run_workflow_background after invoke returned: the registry update
BackgroundComplete ==
    /\ pc = "returned"
    /\ workflows' = [workflows EXCEPT ![WorkflowId] =
          Merge(@, [status |-> IF Get(state, "status") # Some("failed")
                               THEN SUCCESS ELSE FAILED,
                    current_step |-> Get(state, "current_step"),
                    coverage_before |-> Get(state, "coverage_before"),
                    pr_url |-> Get(state, "pr_url"),
                    errors |-> GetOr(state, "errors", <<>>),
                    result |-> state])]
    /\ pc' = "done"
    /\ UNCHANGED <<state, current, exc, trace, outcomes, extFailed, agentVars, apiVars, libVars>>

\* an except branch that logs the exception and leaves the registry alone
BackgroundExceptLoggingOnly ==
    /\ pc = "raised"
    /\ pc' = "done"
    /\ UNCHANGED <<workflows, state, current, exc, trace, outcomes, extFailed,
                   agentVars, apiVars, libVars>>

\* run_workflow_background's except branch: FAILED, errors = [str(e)]
BackgroundExcept ==
    /\ pc = "raised"
    /\ workflows' = [workflows EXCEPT ![WorkflowId] =
          Merge(@, [status |-> FAILED, errors |-> ListOf(Some(Unwrap(exc).msg))])]
    /\ pc' = "done"
    /\ UNCHANGED <<state, current, exc, trace, outcomes, extFailed, agentVars, apiVars, libVars>>

WorkflowInit ==
    /\ workflows = EmptyDict
    /\ pc = "init"
    /\ state = EmptyDict
    /\ current = END
    /\ exc = None
    /\ trace = <<>>
    /\ outcomes = <<>>
    /\ extFailed = FALSE

AgentIdle ==
    /\ agentPc = "idle"
    /\ agentCtx = EmptyDict
    /\ agentExec = None
    /\ agentRes = None

\* no function call and no retry call in progress
FnIdle ==
    /\ fn = [op |-> "none"]
    /\ fnOut = <<>>

\* no server process has handled a request
ApiIdle ==
    /\ servers = EmptyDict
    /\ tasks = EmptyDict
    /\ workspaces = EmptyDict
    /\ cancelled = {}
    /\ apiOp = [op |-> "none"]

RetryIdle ==
    /\ rtPc = "idle"
    /\ rtCfg = [op |-> "none"]
    /\ rtAttempt = 0
    /\ rtDelay = 0
    /\ rtLast = <<>>
    /\ rtCalls = <<>>
    /\ rtSleeps = <<>>
    /\ rtResult = <<>>

Init == WorkflowInit /\ AgentIdle /\ FnIdle /\ RetryIdle /\ ApiIdle

Next ==
    \/ StartWorkflow
    \/ BackgroundBegin
    \/ CloneRepository
    \/ CheckCoverage
    \/ AnalyzeCode
    \/ GenerateTests
    \/ CreatePr
    \/ BackgroundComplete
    \/ BackgroundExcept

Spec == Init /\ [][Next]_vars

\* the steps of the background task, which the event loop runs once queued
BackgroundStep ==
    \/ BackgroundBegin
    \/ CloneRepository
    \/ CheckCoverage
    \/ AnalyzeCode
    \/ GenerateTests
    \/ CreatePr
    \/ BackgroundComplete
    \/ BackgroundExcept

\* a run whose queued task is run and whose node calls all return or raise
SpecLive == Init /\ [][Next]_vars /\ WF_vars(BackgroundStep)

----------------------------------------------------------------------------
(* One call of BaseAgent.run on an agent whose execute is arbitrary *)

AgentContexts ==
    {EmptyDict, [operation |-> "clone"], [project_key |-> "key", extra |-> "x"]}

ExceptionKinds == {"ValueError", "AgentError", "KeyError", "RuntimeError"}

Messages == {<<>>, <<"boom">>, <<"failed: ", "boom">>}

DataValues == {EmptyDict, [coverage |-> 60]}

ExecuteOutcomes ==
    {Raised(kind, msg) : kind \in ExceptionKinds, msg \in Messages}
    \cup {Returned(AgentResult(status, data, error, EmptyDict)) :
             status \in AgentStatus, data \in DataValues,
             error \in {None, Some(<<"boom">>)}}

\* run calls self.execute(context), which returns or raises
AgentExecute ==
    /\ agentPc = "ready"
    /\ \E executed \in ExecuteOutcomes : agentExec' = Some(executed)
    /\ agentPc' = "executing"
    /\ UNCHANGED <<agentCtx, agentRes, wfVars, libVars, apiVars>>

\* run returns
AgentReturn ==
    /\ agentPc = "executing"
    /\ agentRes' = Some(Run(Unwrap(agentExec)))
    /\ agentPc' = "returned"
    /\ UNCHANGED <<agentCtx, agentExec, wfVars, libVars, apiVars>>

AgentInit ==
    /\ WorkflowInit
    /\ FnIdle
    /\ RetryIdle
    /\ ApiIdle
    /\ agentPc = "ready"
    /\ agentCtx \in AgentContexts
    /\ agentExec = None
    /\ agentRes = None

AgentNext == AgentExecute \/ AgentReturn

SpecAgent == AgentInit /\ [][AgentNext]_vars

----------------------------------------------------------------------------
(* Properties of BaseAgent.run, checked under SpecAgent *)

\* C1: run never raises: when execute raises, run returns a FAILED result whose
\* error is the exception's message and whose metadata records the exception
\* kind; when execute returns, run returns exactly that result.
C1_RunConvertsOrPassesThrough ==
    /\ agentPc = "returned" => agentRes # None
    /\ agentRes # None =>
          LET executed == Unwrap(agentExec)
              result == Unwrap(agentRes)
          IN  IF executed.raised
              THEN /\ result.status = FAILED
                   /\ result.error = Some(executed.msg)
                   /\ Get(result.metadata, "exception_type") = Some(executed.kind)
              ELSE result = executed.result

C1_Witness ==
    /\ agentPc = "returned"
    /\ Unwrap(agentExec).raised
    /\ Unwrap(agentRes).status = FAILED

\* C2: when execute raises any error, also one with an empty message, run
\* returns a FAILED result with a non-empty error string.
C2_ErrorStringNonEmpty ==
    (agentPc = "returned" /\ Unwrap(agentExec).raised) =>
        /\ Unwrap(agentRes).status = FAILED
        /\ Unwrap(agentRes).error # None
        /\ Unwrap(Unwrap(agentRes).error) # <<>>

----------------------------------------------------------------------------
(* Properties of a workflow run, checked under Spec *)

FullPath ==
    <<"clone_repository", "check_coverage", "analyze_code", "generate_tests", "create_pr">>

CloneError == Some(<<"Failed to clone repository: ", ExtError>>)

CoverageError == Some(<<"SonarQube API error: ", "Failed to fetch metrics: ", ExtError>>)

\* the errors of a failed coverage step: the request, or a payload entry's key
CoverageErrors ==
    {CoverageError,
     Some(<<"SonarQube API error: ", "'", "metric", "'">>),
     Some(<<"SonarQube API error: ", "'", "path", "'">>)}

CloneFailed == Len(outcomes) >= 1 /\ outcomes[1] = "failed"

CoverageExecuted == Len(outcomes) >= 2

\* the coverage step returned a coverage value
CoverageReturned == Len(outcomes) >= 2 /\ outcomes[2] = "ok"

\* C3 as stated: after a failed clone the coverage step fails its own validation
\* for the missing repo_path and the errors list holds two accumulated errors.
C3_TwoAccumulatedErrors ==
    (CloneFailed /\ CoverageExecuted) =>
        /\ outcomes[2] = "failed"
        /\ Len(state["errors"]) = 2

\* C3 amended: after a failed clone check_coverage still executes against a
\* state lacking repo_path; it does not consult repo_path, so it fails only on
\* the coverage server's answer; either way the errors list holds exactly one
\* error (the coverage error replaces the clone error when both fail).
C3_OneReplacedError ==
    CloneFailed =>
        /\ "repo_path" \notin DOMAIN state
        /\ state["status"] = "failed"
        /\ Len(trace) = 1 => (pc = "running" /\ current = "check_coverage")
        /\ CoverageExecuted =>
              /\ trace[2] = "check_coverage"
              /\ outcomes[2] \in {"ok", "failed"}
              /\ outcomes[2] = "ok" <=> "coverage_before" \in DOMAIN state
              /\ IF outcomes[2] = "failed"
                 THEN state["errors"] \in {ListOf(e) : e \in CoverageErrors}
                 ELSE state["errors"] = ListOf(CloneError)

C3_Witness ==
    /\ CloneFailed
    /\ CoverageExecuted
    /\ outcomes[2] = "failed"
    /\ state["errors"] = ListOf(CoverageError)

\* C4: node functions never raise: every node captures its failure in the
\* update it returns.
C4_NodesNeverRaise ==
    /\ pc # "raised"
    /\ \A i \in 1..Len(outcomes) : outcomes[i] # "raised"

\* C5: whenever the coverage step returns a coverage_before strictly below the
\* threshold, the run executes analyze_code, generate_tests and create_pr, in
\* that order, before it ends.
C5_BelowThresholdRunsAll ==
    (pc = "done" /\ CoverageReturned
        /\ state["coverage_before"] < state["coverage_threshold"]) =>
        trace = FullPath

\* C6: whenever the coverage step returns a coverage_before greater than or
\* equal to the threshold, the router ends the run and none of analyze_code,
\* generate_tests, create_pr executes.
C6_AtOrAboveThresholdEnds ==
    (CoverageReturned /\ state["coverage_before"] >= state["coverage_threshold"]) =>
        /\ trace = <<"clone_repository", "check_coverage">>
        /\ current = END
        /\ pc \in {"returned", "done"}

C6_Witness ==
    /\ pc = "done"
    /\ CoverageReturned
    /\ state["coverage_before"] = state["coverage_threshold"]
    /\ state["coverage_threshold"] > 0

\* C7: a run below the threshold in which every external collaborator call
\* succeeds ends with status success, pr_id and pr_url set and no node failure.
C7_HappyPathSucceeds ==
    (pc = "done" /\ ~extFailed /\ CoverageReturned
        /\ state["coverage_before"] < state["coverage_threshold"]) =>
        /\ Get(state, "status") = Some("success")
        /\ "pr_id" \in DOMAIN state
        /\ "pr_url" \in DOMAIN state
        /\ \A i \in 1..Len(outcomes) : outcomes[i] = "ok"

\* C8: no node executes twice and the executed sequence is a prefix of
\* clone_repository, check_coverage, analyze_code, generate_tests, create_pr;
\* the node to run next is determined by the position on that path, and a run
\* returns only after check_coverage (the router's end) or after create_pr.
C8_LinearPath ==
    /\ Len(trace) <= Len(FullPath)
    /\ trace = SubSeq(FullPath, 1, Len(trace))
    /\ \A i, j \in 1..Len(trace) : trace[i] = trace[j] => i = j
    /\ Len(outcomes) = Len(trace)
    /\ pc = "running" =>
          /\ Len(trace) < Len(FullPath)
          /\ current = FullPath[Len(trace) + 1]
    /\ pc = "returned" =>
          /\ current = END
          /\ \/ Len(trace) = Len(FullPath)
             \/ /\ trace = <<"clone_repository", "check_coverage">>
                /\ GetOr(state, "coverage_before", 0) >= state["coverage_threshold"]

C8_Witness ==
    /\ pc = "returned"
    /\ trace = FullPath

\* the edge a node's success would follow, read off the graph's wiring
C9_Edge(node) ==
    CASE node = "clone_repository" -> "check_coverage"
      [] node = "check_coverage" ->
            IF GetOr(state, "coverage_before", 0) < state["coverage_threshold"]
            THEN "analyze_code" ELSE END
      [] node = "analyze_code" -> "generate_tests"
      [] node = "generate_tests" -> "create_pr"
      [] node = "create_pr" -> END

\* C9: a node's failure update does not halt the graph: after it the executor
\* follows the edge it would follow after a success, so the successor is the
\* node run next unless that edge leads to END.
C9_FailureFollowsSameEdge ==
    \A i \in 1..Len(outcomes) :
        outcomes[i] = "failed" =>
            IF i < Len(trace)
            THEN trace[i + 1] = C9_Edge(trace[i])
            ELSE /\ current = C9_Edge(trace[i])
                 /\ pc = (IF current = END THEN "returned" ELSE "running")
                    \/ (pc = "done" /\ current = END)

C9_Witness ==
    \E i \in 1..Len(outcomes) :
        /\ outcomes[i] = "failed"
        /\ i < Len(trace)
        /\ trace[i + 1] = "check_coverage"

\* C10: a run in which steps failed still reaches END and returns a final
\* state whose errors list is non-empty and whose status is failed.
C10_FailedRunCompletes ==
    (pc \in {"raised", "done"} /\ \E i \in 1..Len(outcomes) : outcomes[i] # "ok") =>
        /\ exc = None
        /\ current = END
        /\ GetOr(state, "errors", <<>>) # <<>>
        /\ Get(state, "status") = Some("failed")

\* the errors a node's failure update can carry, by node
C11_StepErrors(node) ==
    CASE node = "clone_repository" -> {CloneError}
      [] node = "check_coverage" -> CoverageErrors
      [] node = "generate_tests" ->
            {Some(<<"Test generation error: ", "'", "name", "'">>)}
      [] node = "create_pr" ->
            {Some(<<"Repository not initialized. Run clone operation first.">>)}
      [] OTHER -> {}

LastFailed == Len(outcomes) >= 1 /\ outcomes[Len(outcomes)] = "failed"

\* C11: lists are replaced, not concatenated: once a node has returned a failure
\* update, state.errors is exactly that node's one-element list, whatever
\* errors earlier nodes recorded.
C11_ErrorsReplaced ==
    LastFailed =>
        /\ Len(state["errors"]) = 1
        /\ state["errors"][1] \in C11_StepErrors(trace[Len(trace)])

\* a second failure has replaced the first one
C11_Witness ==
    /\ LastFailed
    /\ \E i \in 1..(Len(outcomes) - 1) : outcomes[i] = "failed"
    /\ trace[Len(trace)] = "create_pr"
    /\ Len(state["errors"]) = 1

----------------------------------------------------------------------------
(* Single calls of the pure functions, on arguments drawn from small sets *)

\* the dicts over `keys` whose values come from values[k]
Dicts(keys, values) ==
    UNION {[present -> UNION {values[k] : k \in present}] : present \in SUBSET keys}

StateSamples ==
    {d \in Dicts({"errors", "status", "repo_path"},
                 [k \in {"errors", "status", "repo_path"} |->
                     CASE k = "errors" -> {<<>>, <<"e1">>}
                       [] k = "status" -> {<<"failed">>, <<"success">>}
                       [] k = "repo_path" -> {<<"workspaces/", "repo">>}]) :
        \A k \in DOMAIN d :
            CASE k = "errors" -> d[k] \in {<<>>, <<"e1">>}
              [] k = "status" -> d[k] \in {<<"failed">>, <<"success">>}
              [] k = "repo_path" -> d[k] = <<"workspaces/", "repo">>}

MergeInputs == [op : {"merge"}, s : StateSamples, p : StateSamples]

\* the executor merges an update into the state; merging it again repeats the call
ApplyMerge ==
    /\ fn.op = "merge"
    /\ Len(fnOut) < 2
    /\ fnOut' = Append(fnOut,
                       Merge(IF fnOut = <<>> THEN fn.s ELSE fnOut[Len(fnOut)], fn.p))
    /\ UNCHANGED <<fn, wfVars, agentVars, apiVars, retryVars>>

\* the dict d without the keys outside `present`
Restrict(d, present) == [k \in present \cap DOMAIN d |-> d[k]]

Subdicts(d) == {Restrict(d, present) : present \in SUBSET DOMAIN d}

RequiredKeyLists ==
    UNION {[1..n -> {"a", "b", "c"}] : n \in 0..2} \cup {<<"a", "b", "c">>, <<"c", "b", "a">>}

ValidateInputs ==
    [op : {"validate"}, context : Subdicts([a |-> "v", b |-> "v", c |-> "v"]),
     required_keys : RequiredKeyLists]

\* one call of validate_context; the context is read again after the call
ApplyValidateContext ==
    /\ fn.op = "validate"
    /\ fnOut = <<>>
    /\ fnOut' = <<[raised |-> validate_context("agent", fn.context, fn.required_keys),
                   context |-> fn.context]>>
    /\ UNCHANGED <<fn, wfVars, agentVars, apiVars, retryVars>>

IsSuccessInputs ==
    [op : {"is_success"},
     result : {AgentResult(status, EmptyDict, error, EmptyDict) :
                  status \in AgentStatus, error \in {None, Some(<<"boom">>)}}]

ApplyIsSuccess ==
    /\ fn.op = "is_success"
    /\ fnOut = <<>>
    /\ fnOut' = <<is_success(fn.result)>>
    /\ UNCHANGED <<fn, wfVars, agentVars, apiVars, retryVars>>

GitOperations == {"clone", "create_branch", "commit", "push", "rebase"}

GitContexts ==
    UNION {Subdicts([operation |-> operation, repo_url |-> <<"url">>,
                     local_path |-> <<"workspaces/", "repo">>,
                     commit_message |-> <<"Add tests">>]) : operation \in GitOperations}

RunGitInputs ==
    [op : {"run_git"}, repo : BOOLEAN, context : GitContexts,
     git : GitOutcomes \cup {"nothing"}]

\* GitAgent.run(context)
RunGitAgent ==
    /\ fn.op = "run_git"
    /\ fnOut = <<>>
    /\ fnOut' = <<Run(GitExecute(fn.repo, fn.context, fn.git))>>
    /\ UNCHANGED <<fn, wfVars, agentVars, apiVars, retryVars>>

RunSonarInputs ==
    [op : {"run_sonar"}, context : Subdicts([project_key |-> "key"]),
     metrics : MetricsResponses, details : DetailsResponses]

\* SonarQubeAgent.run(context)
RunSonarAgent ==
    /\ fn.op = "run_sonar"
    /\ fnOut = <<>>
    /\ fnOut' = <<Run(SonarExecute(fn.context, fn.metrics, fn.details))>>
    /\ UNCHANGED <<fn, wfVars, agentVars, apiVars, retryVars>>

\* an uncovered file as the coverage step reports it, and one without its path
FileInfos ==
    {[path |-> "a.py", uncovered_area |-> 3, language |-> "python"],
     [uncovered_area |-> 3, language |-> "python"]}

FileInfoLists == UNION {[1..n -> FileInfos] : n \in 0..MaxFiles}

AnalyzerContexts ==
    UNION {Subdicts([repo_path |-> <<"workspaces/", "repo">>, uncovered_files |-> files]) :
              files \in FileInfoLists}

RunAnalyzerInputs == [op : {"run_analyzer"}, context : AnalyzerContexts]

\* AnalyzerAgent.run(context)
RunAnalyzerAgent ==
    /\ fn.op = "run_analyzer"
    /\ fnOut = <<>>
    /\ fnOut' = <<Run(AnalyzerExecute(fn.context))>>
    /\ UNCHANGED <<fn, wfVars, agentVars, apiVars, retryVars>>

\* a candidate as the analyzer produces it, and one that carries a name
CandidateSamples ==
    {[file_path |-> <<"a.py">>, uncovered_area |-> 3, language |-> "python"],
     [name |-> "f", file_path |-> <<"a.py">>]}

CandidateLists == UNION {[1..n -> CandidateSamples] : n \in 0..MaxFiles}

TestGenContexts ==
    UNION {Subdicts([test_candidates |-> candidates, repo_path |-> <<"workspaces/", "repo">>,
                     max_tests |-> 1]) : candidates \in CandidateLists}

RunTestGenInputs == [op : {"run_test_gen"}, context : TestGenContexts, gen : GenOutcomes]

\* TestGeneratorAgent.run(context)
RunTestGenAgent ==
    /\ fn.op = "run_test_gen"
    /\ fnOut = <<>>
    /\ fnOut' = <<Run(TestGenExecute(fn.context, fn.gen))>>
    /\ UNCHANGED <<fn, wfVars, agentVars, apiVars, retryVars>>

RunPrInputs ==
    [op : {"run_pr"},
     context : Subdicts([repository_id |-> "repo", source_branch |-> "branch",
                         pr_title |-> "title", pr_description |-> "text"]),
     api : {"ok", "error"}]

\* PRAzureDevOpsAgent.run(context)
RunPrAgent ==
    /\ fn.op = "run_pr"
    /\ fnOut = <<>>
    /\ fnOut' = <<Run(PrExecute(fn.context, fn.api))>>
    /\ UNCHANGED <<fn, wfVars, agentVars, apiVars, retryVars>>

RunOps == {"run_git", "run_sonar", "run_analyzer", "run_test_gen", "run_pr"}

\* post-merge states: each of the two keys the router reads, present or absent
RouterInputs ==
    [op : {"router"},
     s : UNION {Subdicts([coverage_before |-> coverage, coverage_threshold |-> threshold,
                          status |-> "failed"]) :
                   coverage \in {0, 60, 90, 95, 100}, threshold \in {0, 90, 100}}]

\* one evaluation of the conditional edge's router
ApplyRouter ==
    /\ fn.op = "router"
    /\ fnOut = <<>>
    /\ fnOut' = <<should_generate_tests(fn.s)>>
    /\ UNCHANGED <<fn, wfVars, agentVars, apiVars, retryVars>>

\* the targets of the edges that leave node n
Successors(n) ==
    (IF n \in DOMAIN StaticTarget THEN {StaticTarget[n]} ELSE {})
    \cup (IF n \in DOMAIN ConditionalTarget
          THEN {ConditionalTarget[n][label] : label \in DOMAIN ConditionalTarget[n]}
          ELSE {})

WalkInputs == [op : {"walk"}, from : Nodes]

\* follow one edge of the graph from the node reached so far
GraphWalk ==
    /\ fn.op = "walk"
    /\ Len(fnOut) <= Cardinality(Nodes)
    /\ \E target \in Successors(IF fnOut = <<>> THEN fn.from ELSE fnOut[Len(fnOut)]) :
          fnOut' = Append(fnOut, target)
    /\ UNCHANGED <<fn, wfVars, agentVars, apiVars, retryVars>>

\* the states create_pr_node is called on: generate_tests returned or failed
CreatePrStates ==
    {[repository_id |-> <<"repo">>, test_files |-> <<>>, coverage_before |-> 60],
     [repository_id |-> <<"repo">>, test_files |-> <<>>, status |-> "failed"],
     [repository_id |-> <<"repo">>, status |-> "failed"]}

CreatePrInputs == [op : {"create_pr_node"}, s : CreatePrStates, ext : PrOutcomes]

\* one call of create_pr_node: its agent calls and the update it returns
ApplyCreatePrNode ==
    /\ fn.op = "create_pr_node"
    /\ fnOut = <<>>
    /\ fnOut' = <<[calls |-> create_pr_calls(fn.s, fn.ext),
                   out |-> create_pr_node(fn.s, fn.ext)]>>
    /\ UNCHANGED <<fn, wfVars, agentVars, apiVars, retryVars>>

FnInit ==
    /\ WorkflowInit
    /\ AgentIdle
    /\ RetryIdle
    /\ ApiIdle
    /\ fnOut = <<>>
    /\ \/ fn \in MergeInputs
       \/ fn \in ValidateInputs
       \/ fn \in IsSuccessInputs
       \/ fn \in RunGitInputs
       \/ fn \in RunSonarInputs
       \/ fn \in RunAnalyzerInputs
       \/ fn \in RunTestGenInputs
       \/ fn \in RunPrInputs
       \/ fn \in RouterInputs
       \/ fn \in WalkInputs
       \/ fn \in CreatePrInputs

FnNext ==
    \/ ApplyMerge
    \/ ApplyValidateContext
    \/ ApplyIsSuccess
    \/ RunGitAgent
    \/ RunSonarAgent
    \/ RunAnalyzerAgent
    \/ RunTestGenAgent
    \/ RunPrAgent
    \/ ApplyRouter
    \/ GraphWalk
    \/ ApplyCreatePrNode

SpecFn == FnInit /\ [][FnNext]_vars

\* C12: merge is a shallow per-key overwrite: the merged state has the keys of
\* both, agrees with the update on the update's keys and with the prior state
\* on every other key, and merging the same update again changes nothing.
C12_MergeOverwritesPerKey ==
    (fn.op = "merge" /\ fnOut # <<>>) =>
        /\ DOMAIN fnOut[1] = (DOMAIN fn.s) \cup (DOMAIN fn.p)
        /\ \A k \in DOMAIN fn.p : fnOut[1][k] = fn.p[k]
        /\ \A k \in (DOMAIN fn.s) \ (DOMAIN fn.p) : fnOut[1][k] = fn.s[k]
        /\ Len(fnOut) = 2 => fnOut[2] = fnOut[1]

\* an update that overwrites a non-empty errors list and leaves another key alone
C12_Witness ==
    /\ fn.op = "merge"
    /\ Len(fnOut) = 2
    /\ "errors" \in (DOMAIN fn.s) \cap (DOMAIN fn.p)
    /\ fn.s["errors"] # <<>>
    /\ fn.p["errors"] # <<>>
    /\ "repo_path" \in (DOMAIN fn.s) \ (DOMAIN fn.p)

----------------------------------------------------------------------------
(* Frame properties of a workflow run, checked under Spec *)

InputKeys == {"repo_url", "sonar_project_key", "coverage_threshold"}

\* C13: no node removes a key and nothing is rolled back: the keys of the state
\* only grow, the caller's inputs keep the values of the request (workflow_id and
\* timestamp the values the runner gave them), and repo_path, once written by a
\* successful clone, stays as written when a later node fails.
C13_KeysOnlyGrow ==
    [][/\ DOMAIN state \subseteq DOMAIN state'
       /\ pc # "init" /\ pc # "pending" =>
             /\ \A k \in InputKeys \cup {"workflow_id", "timestamp"} :
                   k \in DOMAIN state /\ state'[k] = state[k]
             /\ \A k \in InputKeys : state[k] = workflows[WorkflowId].request[k]
             /\ "repo_path" \in DOMAIN state => state'["repo_path"] = state["repo_path"]
      ]_vars

\* a later node failed and the clone's repo_path is still there
C13_Witness ==
    /\ pc = "done"
    /\ outcomes[1] = "ok"
    /\ LastFailed
    /\ "repo_path" \in DOMAIN state
    /\ state["repo_path"] = <<"workspaces/", "repo">>

----------------------------------------------------------------------------
(* src/utils/helpers.py: retry(max_attempts, delay, exponential_backoff,    *)
(* exceptions) around a function func.  An exception func raises carries   *)
(* the number of the invocation that raised it (at).                       *)

FuncErrorKinds == {"ConnectionError", "ValueError"}

RetryConfigs ==
    [max_attempts : (-1)..MaxAttempts, delay : {1, 3}, exponential_backoff : BOOLEAN,
     exceptions : {FuncErrorKinds, {"ConnectionError"}}]

\* what the invocation number `at` of func can do
FuncOutcomes(at) ==
    {[raised |-> FALSE, result |-> [value |-> "v", at |-> at]]}
    \cup {[raised |-> TRUE, kind |-> kind, msg |-> <<"failure">>, at |-> at] :
             kind \in FuncErrorKinds}

\* a clause that catches every exception
IsRetryableAlways(kind, exceptions) == TRUE

\* except exceptions as e
IsRetryable(kind, exceptions) == kind \in exceptions

\* a test that never sees the last attempt, leaving the raise to the loop's exit
IsLastAttemptNever(attempt, max_attempts) == FALSE

\* a test that gives up one attempt early
IsLastAttemptEarly(attempt, max_attempts) == attempt + 1 >= max_attempts

\* if attempt == max_attempts
IsLastAttempt(attempt, max_attempts) == attempt = max_attempts

\* a step that adds two instead of doubling
NextDelayAddingTwo(current_delay, exponential_backoff) ==
    IF exponential_backoff THEN current_delay + 2 ELSE current_delay

\* if exponential_backoff: current_delay *= 2
NextDelay(current_delay, exponential_backoff) ==
    IF exponential_backoff THEN current_delay * 2 ELSE current_delay

\* the wrapper is entered: current_delay = delay, last_exception = None
RetryEnter ==
    /\ rtPc = "ready"
    /\ rtDelay' = rtCfg.delay
    /\ rtLast' = None
    /\ rtAttempt' = 1
    /\ rtPc' = "loop"
    /\ UNCHANGED <<rtCfg, rtCalls, rtSleeps, rtResult, wfVars, agentVars, apiVars, fnVars>>

\* one iteration of the for loop up to its return, raise or sleep
RetryAttempt ==
    /\ rtPc = "loop"
    /\ rtAttempt <= rtCfg.max_attempts
    /\ \E called \in FuncOutcomes(Len(rtCalls) + 1) :
          /\ rtCalls' = Append(rtCalls, called)
          /\ IF ~called.raised
             THEN /\ rtResult' = Some(called)
                  /\ rtPc' = "returned"
                  /\ UNCHANGED rtLast
             ELSE IF ~IsRetryable(called.kind, rtCfg.exceptions)
             THEN /\ rtResult' = Some(called)
                  /\ rtPc' = "raised"
                  /\ UNCHANGED rtLast
             ELSE /\ rtLast' = Some(called)
                  /\ IF IsLastAttempt(rtAttempt, rtCfg.max_attempts)
                     THEN /\ rtResult' = Some(called)
                          /\ rtPc' = "raised"
                     ELSE /\ rtPc' = "sleeping"
                          /\ UNCHANGED rtResult
    /\ UNCHANGED <<rtCfg, rtAttempt, rtDelay, rtSleeps, wfVars, agentVars, apiVars, fnVars>>

\* time.sleep(current_delay), the backoff, and the next value of attempt
RetrySleep ==
    /\ rtPc = "sleeping"
    /\ rtSleeps' = Append(rtSleeps, rtDelay)
    /\ rtDelay' = NextDelay(rtDelay, rtCfg.exponential_backoff)
    /\ rtAttempt' = rtAttempt + 1
    /\ rtPc' = "loop"
    /\ UNCHANGED <<rtCfg, rtLast, rtCalls, rtResult, wfVars, agentVars, apiVars, fnVars>>

\* the range is exhausted: raise last_exception, or RuntimeError without one
RetryExhausted ==
    /\ rtPc = "loop"
    /\ rtAttempt > rtCfg.max_attempts
    /\ rtResult' = IF rtLast # None THEN rtLast
                   ELSE Some([raised |-> TRUE, kind |-> "RuntimeError",
                              msg |-> <<"Unexpected retry loop exit">>, at |-> 0])
    /\ rtPc' = "raised"
    /\ UNCHANGED <<rtCfg, rtAttempt, rtDelay, rtLast, rtCalls, rtSleeps,
                   wfVars, agentVars, apiVars, fnVars>>

RetryInit ==
    /\ WorkflowInit
    /\ AgentIdle
    /\ FnIdle
    /\ ApiIdle
    /\ rtPc = "ready"
    /\ rtCfg \in RetryConfigs
    /\ rtAttempt = 0
    /\ rtDelay = 0
    /\ rtLast = None
    /\ rtCalls = <<>>
    /\ rtSleeps = <<>>
    /\ rtResult = None

RetryNext ==
    \/ RetryEnter
    \/ RetryAttempt
    \/ RetrySleep
    \/ RetryExhausted

SpecRetry == RetryInit /\ [][RetryNext]_vars

----------------------------------------------------------------------------
(* Properties of the retry wrapper, checked under SpecRetry *)

AllCallsFailedRetryably ==
    \A i \in 1..Len(rtCalls) :
        rtCalls[i].raised /\ rtCalls[i].kind \in rtCfg.exceptions

\* C14: with max_attempts = n >= 1 and a function that always fails with a
\* retryable error, func is invoked exactly n times and the error finally raised
\* is the error of the n-th invocation.
C14_ExactlyNAttempts ==
    (rtCfg.max_attempts >= 1 /\ AllCallsFailedRetryably) =>
        /\ Len(rtCalls) <= rtCfg.max_attempts
        /\ rtPc \notin {"returned", "idle"}
        /\ rtPc = "raised" =>
              /\ Len(rtCalls) = rtCfg.max_attempts
              /\ rtResult = Some(rtCalls[Len(rtCalls)])
              /\ Unwrap(rtResult).at = rtCfg.max_attempts

C14_Witness ==
    /\ rtPc = "raised"
    /\ rtCfg.max_attempts = 3
    /\ AllCallsFailedRetryably
    /\ Len(rtCalls) = 3

RECURSIVE Pow2(_)
Pow2(k) == IF k <= 0 THEN 1 ELSE 2 * Pow2(k - 1)

\* C15: with exponential_backoff the k-th sleep lasts delay * 2^(k-1); without
\* it every sleep lasts delay.
C15_SleepDurations ==
    \A k \in 1..Len(rtSleeps) :
        rtSleeps[k] = IF rtCfg.exponential_backoff
                      THEN rtCfg.delay * Pow2(k - 1)
                      ELSE rtCfg.delay

C15_Witness ==
    /\ rtCfg.exponential_backoff
    /\ rtCfg.delay = 3
    /\ Len(rtSleeps) = 2
    /\ rtSleeps[2] = 6

\* C16: an error whose kind is not retryable propagates at once, on whichever
\* attempt it occurs: it is what the wrapper raises, func is not invoked again
\* and no sleep follows it.
C16_NonRetryablePropagates ==
    \A i \in 1..Len(rtCalls) :
        (rtCalls[i].raised /\ rtCalls[i].kind \notin rtCfg.exceptions) =>
            /\ i = Len(rtCalls)
            /\ rtPc = "raised"
            /\ rtResult = Some(rtCalls[i])
            /\ Len(rtSleeps) = i - 1

C16_Witness ==
    /\ Len(rtCalls) = 2
    /\ rtCalls[2].raised
    /\ rtCalls[2].kind \notin rtCfg.exceptions
    /\ rtCfg.max_attempts = 3
    /\ rtPc = "raised"

----------------------------------------------------------------------------
(* Properties of single calls, checked under SpecFn *)

AbsentKeys ==
    {fn.required_keys[i] : i \in 1..Len(fn.required_keys)} \ DOMAIN fn.context

\* C17: validate_context fails exactly when a required key is absent from the
\* context, its message then names every absent required key, and the context
\* is the same after the call as before it.
C17_ValidateNamesEveryAbsentKey ==
    (fn.op = "validate" /\ fnOut # <<>>) =>
        /\ (fnOut[1].raised # None) <=> (AbsentKeys # {})
        /\ fnOut[1].raised # None =>
              /\ Unwrap(fnOut[1].raised).kind = "ValueError"
              /\ \A k \in AbsentKeys :
                    \E i \in 3..Len(Unwrap(fnOut[1].raised).msg) :
                        Unwrap(fnOut[1].raised).msg[i] = k
        /\ fnOut[1].context = fn.context

\* two required keys are absent and a third is present
C17_Witness ==
    /\ fn.op = "validate"
    /\ fnOut # <<>>
    /\ fn.required_keys = <<"c", "b", "a">>
    /\ DOMAIN fn.context = {"b"}
    /\ fnOut[1].raised # None

C17_WitnessAllPresent ==
    /\ fn.op = "validate"
    /\ fnOut # <<>>
    /\ fn.required_keys = <<"a", "b">>
    /\ DOMAIN fn.context = {"a", "b", "c"}
    /\ fnOut[1].raised = None

\* C18: for each of the five statuses, is_success() is true if and only if the
\* status is SUCCESS.
C18_SuccessOnlyForSuccess ==
    (fn.op = "is_success" /\ fnOut # <<>>) =>
        (fnOut[1] <=> fn.result.status = "success")

C18_Witness ==
    /\ fn.op = "is_success"
    /\ fnOut = <<FALSE>>
    /\ fn.result.status = SKIPPED

\* C19: in every result the run of a step returns, the error is present if and
\* only if the status is FAILED.
C19_ErrorIffFailed ==
    (fn.op \in RunOps /\ fnOut # <<>>) =>
        ((fnOut[1].error # None) <=> (fnOut[1].status = FAILED))

\* a commit with nothing to commit is skipped, without an error
C19_Witness ==
    /\ fn.op = "run_git"
    /\ fnOut # <<>>
    /\ fnOut[1].status = SKIPPED
    /\ fnOut[1].error = None

C19_WitnessFailed ==
    /\ fn.op = "run_pr"
    /\ fnOut # <<>>
    /\ fnOut[1].status = FAILED
    /\ fnOut[1].error # None

\* C20: whatever of coverage_before and coverage_threshold the state holds, the
\* router returns a label that is a key of the conditional edge's target table.
C20_RouterLabelInTable ==
    (fn.op = "router" /\ fnOut # <<>>) =>
        fnOut[1] \in DOMAIN ConditionalTarget["check_coverage"]

\* both keys absent: the defaults 0 and 90 route to analyze_code
C20_Witness ==
    /\ fn.op = "router"
    /\ fnOut = <<"analyze_code">>
    /\ "coverage_before" \notin DOMAIN fn.s
    /\ "coverage_threshold" \notin DOMAIN fn.s

C20_WitnessAbove ==
    /\ fn.op = "router"
    /\ fnOut = <<"end">>
    /\ "coverage_before" \in DOMAIN fn.s
    /\ "coverage_threshold" \in DOMAIN fn.s
    /\ fn.s["coverage_before"] > fn.s["coverage_threshold"]

----------------------------------------------------------------------------
(* The graph of create_workflow_graph, checked under SpecFn *)

\* the nodes and END reached from `from` along at most k edges
RECURSIVE ReachableWithin(_, _)
ReachableWithin(from, k) ==
    IF k = 0 THEN from
    ELSE ReachableWithin(from \cup UNION {Successors(n) : n \in from}, k - 1)

ReachableFrom(n) == ReachableWithin({n}, Cardinality(Nodes) + 1)

\* C22: the entry node is registered, every edge leaves a registered node and
\* leads to a registered node or END, every registered node is reachable from
\* the entry node, and END is reachable from every registered node.
C22_GraphInvariant ==
    /\ EntryPoint \in Nodes
    /\ (DOMAIN StaticTarget) \cup (DOMAIN ConditionalTarget) \subseteq Nodes
    /\ \A n \in Nodes : Successors(n) \subseteq Nodes \cup {END}
    /\ Nodes \subseteq ReachableFrom(EntryPoint)
    /\ \A n \in Nodes : END \in ReachableFrom(n)
    /\ fn.op = "walk" => \A i \in 1..Len(fnOut) : fnOut[i] \in Nodes \cup {END}

\* a walk from the entry node through every node to END
C22_Witness ==
    /\ fn.op = "walk"
    /\ fn.from = EntryPoint
    /\ fnOut = <<"check_coverage", "analyze_code", "generate_tests", "create_pr", END>>

----------------------------------------------------------------------------
(* How a run ends and what the registry then reports, checked under Spec *)

\* C27: a failure an agent's run returned never aborts the run, whereas an
\* exception raised by a node body stops the run at that node and the registry
\* entry becomes FAILED with errors the one-element list of its message.
C27_OnlyBodyExceptionsAbort ==
    /\ \A i \in 1..Len(outcomes) :
          outcomes[i] = "raised" =>
              /\ i = Len(outcomes)
              /\ pc \in {"raised", "done"}
              /\ exc # None
    /\ exc # None => (Len(outcomes) >= 1 /\ outcomes[Len(outcomes)] = "raised")
    /\ (Len(outcomes) >= 1 /\ outcomes[Len(outcomes)] = "failed") =>
          /\ exc = None
          /\ pc \in {"running", "returned", "done"}
          /\ current = NextNode(trace[Len(trace)], state)
    /\ (pc = "done" /\ exc = None) => current = END
    /\ (pc = "done" /\ exc # None) =>
          /\ workflows[WorkflowId]["status"] = FAILED
          /\ workflows[WorkflowId]["errors"] = <<Some(Unwrap(exc).msg)>>

\* the clone failed without aborting, and analyze_code then raised and did
C27_Witness ==
    /\ pc = "done"
    /\ exc # None
    /\ trace = <<"clone_repository", "check_coverage", "analyze_code">>
    /\ outcomes = <<"failed", "ok", "raised">>
    /\ workflows[WorkflowId]["errors"] = <<Some(Unwrap(exc).msg)>>

EndedAtRouter == Len(trace) >= 1 /\ trace[Len(trace)] = "check_coverage"

NoStepFailed == \A i \in 1..Len(outcomes) : outcomes[i] = "ok"

RegistryMatchesFinalState ==
    /\ (workflows[WorkflowId]["status"] = FAILED) <=> (Get(state, "status") = Some("failed"))
    /\ workflows[WorkflowId]["status"] \in {FAILED, SUCCESS}
    /\ workflows[WorkflowId]["errors"] = state["errors"]
    /\ workflows[WorkflowId]["current_step"] = Get(state, "current_step")
    /\ workflows[WorkflowId]["coverage_before"] = Get(state, "coverage_before")
    /\ workflows[WorkflowId]["pr_url"] = Get(state, "pr_url")

\* C30 as stated: after a run returned its final state, the registry status is
\* FAILED iff the final state's status is 'failed' and SUCCESS otherwise, the
\* reported fields equal the final state's, and every run that ends at the
\* router is reported SUCCESS with no pr_url.
C30_RouterEndIsSuccess ==
    (pc = "done" /\ exc = None) =>
        /\ RegistryMatchesFinalState
        /\ EndedAtRouter =>
              /\ workflows[WorkflowId]["status"] = SUCCESS
              /\ workflows[WorkflowId]["pr_url"] = None

\* C30 amended: a run that ends at the router is reported SUCCESS when no step
\* failed, and with no pr_url in every case.
C30_RouterEndWithoutFailureIsSuccess ==
    (pc = "done" /\ exc = None) =>
        /\ RegistryMatchesFinalState
        /\ EndedAtRouter =>
              /\ workflows[WorkflowId]["pr_url"] = None
              /\ NoStepFailed => workflows[WorkflowId]["status"] = SUCCESS
              /\ ~NoStepFailed => workflows[WorkflowId]["status"] = FAILED

C30_Witness ==
    /\ pc = "done"
    /\ exc = None
    /\ EndedAtRouter
    /\ NoStepFailed
    /\ workflows[WorkflowId]["status"] = SUCCESS
    /\ workflows[WorkflowId]["coverage_before"] = Some(95)

----------------------------------------------------------------------------
(* src/api/routes/workflow.py served by one or more server processes.  Each *)
(* process has its own registry `workflows` and one event loop: a handler  *)
(* is a coroutine without an await and so is one step; the background task *)
(* run_workflow_background is a coroutine whose invoke blocks the loop of  *)
(* its process until the run has ended.  Processes started in the same     *)
(* directory share ./workspaces.                                          *)

Processes == {"p1", "p2"}

\* the process that serves the requests when there is only one
ApiProcess == "p1"

WorkflowIds == {"w1", "w2"}

ApiRequests ==
    {r \in Requests : r.coverage_threshold = 90 /\ r.repo_url.last # <<"repo">>}

ApiExternals ==
    [git : GitOutcomes,
     metrics : {m \in MetricsResponses :
                   \/ m.failed
                   \/ /\ ~fetch_metrics(m).raised
                      /\ "coverage" \in DOMAIN fetch_metrics(m).result},
     details : {[failed |-> TRUE]},
     provider : RegisteredProviders,
     init : InitOutcomes,
     gen : {"ok"},
     pr : {ext \in PrOutcomes : PrAllOk(ext)}]

\* any id in use, whatever uuid4 returned before
NewWorkflowIdsReusing(used) == WorkflowIds

\* str(uuid.uuid4()): an id no run has had
NewWorkflowIds(used) == WorkflowIds \ used

\* the event loop of process p is not inside a background task
LoopFree(p) ==
    \A id \in DOMAIN tasks :
        tasks[id].process = p => tasks[id].pc \in {"queued", "done"}

\* start_workflow on process p: a PENDING entry under a new id, the task is queued
ApiStart(p, request) ==
    /\ LoopFree(p)
    /\ \E id \in NewWorkflowIds(DOMAIN tasks) :
          /\ servers' = Merge(servers,
                [q \in {p} |->
                    Merge(GetOr(servers, p, EmptyDict),
                          [i \in {id} |->
                              [workflow_id |-> id, status |-> PENDING,
                               created_at |-> <<"now">>, request |-> request]])])
          /\ tasks' = Merge(tasks,
                [i \in {id} |->
                    [process |-> p, pc |-> "queued", request |-> request,
                     state |-> EmptyDict, current |-> END, exc |-> None, trace |-> <<>>]])
          /\ apiOp' = [op |-> "start", id |-> id, process |-> p, code |-> 200]
    /\ UNCHANGED <<workspaces, cancelled, wfVars, agentVars, libVars>>

\* run_workflow_background up to the call of invoke: RUNNING, the initial state
ApiBegin(id) ==
    /\ id \in DOMAIN tasks
    /\ tasks[id].pc = "queued"
    /\ LoopFree(tasks[id].process)
    /\ servers' = [servers EXCEPT ![tasks[id].process][id] = Merge(@, [status |-> RUNNING])]
    /\ tasks' = [tasks EXCEPT ![id] =
          [@ EXCEPT !.pc = "running",
                    !.current = EntryPoint,
                    !.state = [repo_url |-> tasks[id].request.repo_url,
                               sonar_project_key |-> tasks[id].request.sonar_project_key,
                               coverage_threshold |-> tasks[id].request.coverage_threshold,
                               timestamp |-> <<"now">>,
                               workflow_id |-> id,
                               errors |-> <<>>]]]
    /\ apiOp' = [op |-> "begin", id |-> id, process |-> tasks[id].process]
    /\ UNCHANGED <<workspaces, cancelled, wfVars, agentVars, libVars>>

\* the call of the node function the executor makes for `node`
NodeCall(node, s, ext) ==
    CASE node = "clone_repository" -> clone_repository_node(s, ext.git)
      [] node = "check_coverage" -> check_coverage_node(s, ext.metrics, ext.details)
      [] node = "analyze_code" -> analyze_code_node(s)
      [] node = "generate_tests" ->
             generate_tests_node(s, ext.provider, ext.init, ext.gen)
      [] node = "create_pr" -> create_pr_node(s, ext.pr)

\* Path("./workspaces") / repo_name
CloneDirectory(id, s) == RepoName(s["repo_url"])

\* _clone_repository on the file system: rmtree of an existing directory, then
\* clone_from, which leaves the directory to this run when it succeeds
Cloned(files, id, s, git) ==
    IF git = "ok"
    THEN Merge(files, [d \in {CloneDirectory(id, s)} |-> [owner |-> id]])
    ELSE [d \in (DOMAIN files) \ {CloneDirectory(id, s)} |-> files[d]]

\* one iteration of the executor for run id
ApiNode(id, ext) ==
    /\ id \in DOMAIN tasks
    /\ tasks[id].pc = "running"
    /\ LET node == tasks[id].current
           out == NodeCall(node, tasks[id].state, ext)
       IN  /\ tasks' = [tasks EXCEPT ![id] =
                 IF out.raised
                 THEN [@ EXCEPT !.pc = "raised",
                                !.exc = Some([kind |-> out.kind, msg |-> out.msg]),
                                !.trace = Append(@, node)]
                 ELSE [@ EXCEPT !.state = Merge(@, out.result),
                                !.current = NextNode(node, Merge(tasks[id].state, out.result)),
                                !.pc = IF NextNode(node, Merge(tasks[id].state, out.result)) = END
                                       THEN "returned" ELSE "running",
                                !.trace = Append(@, node)]]
           /\ workspaces' = IF node = "clone_repository"
                            THEN Cloned(workspaces, id, tasks[id].state, ext.git)
                            ELSE workspaces
    /\ apiOp' = [op |-> "node", id |-> id, process |-> tasks[id].process]
    /\ UNCHANGED <<servers, cancelled, wfVars, agentVars, libVars>>

\* run_workflow_background after invoke returned: the registry update
ApiComplete(id) ==
    /\ id \in DOMAIN tasks
    /\ tasks[id].pc = "returned"
    /\ servers' = [servers EXCEPT ![tasks[id].process][id] =
          Merge(@, [status |-> IF Get(tasks[id].state, "status") # Some("failed")
                               THEN SUCCESS ELSE FAILED,
                    current_step |-> Get(tasks[id].state, "current_step"),
                    coverage_before |-> Get(tasks[id].state, "coverage_before"),
                    pr_url |-> Get(tasks[id].state, "pr_url"),
                    errors |-> GetOr(tasks[id].state, "errors", <<>>),
                    result |-> tasks[id].state])]
    /\ tasks' = [tasks EXCEPT ![id].pc = "done"]
    /\ apiOp' = [op |-> "complete", id |-> id, process |-> tasks[id].process]
    /\ UNCHANGED <<workspaces, cancelled, wfVars, agentVars, libVars>>

\* run_workflow_background's except branch: FAILED, errors = [str(e)]
ApiExcept(id) ==
    /\ id \in DOMAIN tasks
    /\ tasks[id].pc = "raised"
    /\ servers' = [servers EXCEPT ![tasks[id].process][id] =
          Merge(@, [status |-> FAILED,
                    errors |-> ListOf(Some(Unwrap(tasks[id].exc).msg))])]
    /\ tasks' = [tasks EXCEPT ![id].pc = "done"]
    /\ apiOp' = [op |-> "except", id |-> id, process |-> tasks[id].process]
    /\ UNCHANGED <<workspaces, cancelled, wfVars, agentVars, libVars>>

CancelledByUser == ListOf(Some(<<"Cancelled by user">>))

\* a cancel that also ends the background task
ApiCancelInterrupting(p, id) ==
    /\ LoopFree(p)
    /\ id \in DOMAIN GetOr(servers, p, EmptyDict)
    /\ servers' = [servers EXCEPT ![p][id] =
                      Merge(@, [status |-> FAILED, errors |-> CancelledByUser])]
    /\ tasks' = [tasks EXCEPT ![id].pc = "done"]
    /\ cancelled' = cancelled \cup {id}
    /\ apiOp' = [op |-> "cancel", id |-> id, process |-> p, code |-> 200]
    /\ UNCHANGED <<workspaces, wfVars, agentVars, libVars>>

\* cancel_workflow on process p: 404 for an unknown id, else FAILED and the error
ApiCancel(p, id) ==
    /\ LoopFree(p)
    /\ IF id \in DOMAIN GetOr(servers, p, EmptyDict)
       THEN /\ servers' = [servers EXCEPT ![p][id] =
                              Merge(@, [status |-> FAILED, errors |-> CancelledByUser])]
            /\ cancelled' = cancelled \cup {id}
            /\ apiOp' = [op |-> "cancel", id |-> id, process |-> p, code |-> 200]
       ELSE /\ apiOp' = [op |-> "cancel", id |-> id, process |-> p, code |-> 404]
            /\ UNCHANGED <<servers, cancelled>>
    /\ UNCHANGED <<tasks, workspaces, wfVars, agentVars, libVars>>

\* get_workflow_status on process p: 404 for an unknown id, else the entry's fields
ApiGetStatus(p, id) ==
    /\ LoopFree(p)
    /\ apiOp' = IF id \in DOMAIN GetOr(servers, p, EmptyDict)
                THEN [op |-> "get", id |-> id, process |-> p, code |-> 200,
                      status |-> servers[p][id]["status"],
                      errors |-> GetOr(servers[p][id], "errors", <<>>)]
                ELSE [op |-> "get", id |-> id, process |-> p, code |-> 404]
    /\ UNCHANGED <<servers, tasks, workspaces, cancelled, wfVars, agentVars, libVars>>

ApiInit == WorkflowInit /\ AgentIdle /\ FnIdle /\ RetryIdle /\ ApiIdle

\* one server process and its clients
ApiNext ==
    \/ \E request \in ApiRequests : ApiStart(ApiProcess, request)
    \/ \E id \in WorkflowIds : ApiBegin(id)
    \/ \E id \in WorkflowIds, ext \in ApiExternals : ApiNode(id, ext)
    \/ \E id \in WorkflowIds : ApiComplete(id)
    \/ \E id \in WorkflowIds : ApiExcept(id)
    \/ \E id \in WorkflowIds : ApiCancel(ApiProcess, id)
    \/ \E id \in WorkflowIds : ApiGetStatus(ApiProcess, id)

SpecApi == ApiInit /\ [][ApiNext]_vars

\* several server processes started in one directory, each running its runs
ServersNext ==
    \/ \E p \in Processes, request \in ApiRequests : ApiStart(p, request)
    \/ \E id \in WorkflowIds : ApiBegin(id)
    \/ \E id \in WorkflowIds, ext \in ApiExternals : ApiNode(id, ext)
    \/ \E id \in WorkflowIds : ApiComplete(id)
    \/ \E id \in WorkflowIds : ApiExcept(id)

SpecServers == ApiInit /\ [][ServersNext]_vars

----------------------------------------------------------------------------
(* Properties of the registry of one server process, checked under SpecApi *)

Registry(p) == GetOr(servers, p, EmptyDict)

\* C24: whatever the order of start, background steps, status requests and
\* cancels of different runs, an operation on one run inserts or updates only
\* that run's entry: no entry disappears, an entry that changes is the entry of
\* the run operated on, a new entry is the one start inserted, and start never
\* writes over an entry that exists.
C24_RegistryIsolation ==
    [][\A p \in Processes :
          /\ DOMAIN Registry(p) \subseteq DOMAIN Registry(p)'
          /\ \A id \in DOMAIN Registry(p) :
                Registry(p)'[id] # Registry(p)[id] =>
                    /\ apiOp'.op \in {"begin", "complete", "except", "cancel"}
                    /\ apiOp'.id = id
                    /\ apiOp'.process = p
          /\ \A id \in (DOMAIN Registry(p)') \ (DOMAIN Registry(p)) :
                /\ apiOp'.op = "start"
                /\ apiOp'.id = id
                /\ apiOp'.process = p
                /\ Registry(p)'[id]["status"] = PENDING]_vars

\* one run was cancelled while the entry of a finished run stayed as it was
C24_Witness ==
    /\ DOMAIN Registry(ApiProcess) = WorkflowIds
    /\ apiOp.op = "cancel"
    /\ apiOp.id = "w1"
    /\ Registry(ApiProcess)["w1"]["status"] = FAILED
    /\ Registry(ApiProcess)["w2"]["status"] = SUCCESS
    /\ tasks["w1"].pc = "queued"


\* C25: no step of one run deletes or overwrites the working directory that
\* another run cloned and is still using (checked under SpecServers).
C25_NoSharedWorkingDirectory ==
    [][\A d \in DOMAIN workspaces :
          (/\ tasks[workspaces[d].owner].pc = "running"
           /\ apiOp'.id # workspaces[d].owner) =>
              /\ d \in DOMAIN workspaces'
              /\ workspaces'[d].owner = workspaces[d].owner]_vars

RunEndedProperly(id) ==
    (tasks[id].pc = "done" /\ tasks[id].exc = None) => tasks[id].current = END

\* C26: cancel_workflow on a known run sets its entry to FAILED with errors
\* ['Cancelled by user'], which is what a status request then returns, and it
\* leaves every background task as it was: a cancelled run still runs to END.
C26_CancelDoesNotInterrupt ==
    /\ [](\A id \in DOMAIN tasks : RunEndedProperly(id))
    /\ []((apiOp.op = "get" /\ apiOp.code = 200) =>
             /\ apiOp.status = Registry(apiOp.process)[apiOp.id]["status"]
             /\ apiOp.errors = GetOr(Registry(apiOp.process)[apiOp.id], "errors", <<>>))
    /\ [][(apiOp'.op = "cancel" /\ apiOp'.code = 200) =>
             /\ servers'[apiOp'.process][apiOp'.id]["status"] = FAILED
             /\ servers'[apiOp'.process][apiOp'.id]["errors"] = CancelledByUser
             /\ tasks' = tasks]_vars

\* a run cancelled while PENDING that then executed all five nodes
C26_Witness ==
    /\ "w1" \in cancelled
    /\ tasks["w1"].pc = "done"
    /\ Len(tasks["w1"].trace) = 5
    /\ Registry(ApiProcess)["w1"]["errors"] # CancelledByUser

\* C28: once cancel_workflow has returned for a run, its entry stays FAILED
\* with the error 'Cancelled by user', and so does every later status response.
C28_CancellationSticky ==
    /\ \A id \in cancelled :
          /\ Registry(tasks[id].process)[id]["status"] = FAILED
          /\ Registry(tasks[id].process)[id]["errors"] = CancelledByUser
    /\ (apiOp.op = "get" /\ apiOp.code = 200 /\ apiOp.id \in cancelled) =>
          apiOp.status = FAILED

----------------------------------------------------------------------------
(* Progress of a run, checked under SpecLive *)

Started == WorkflowId \in DOMAIN workflows

\* C29: the entry is PENDING until the background task starts, RUNNING while
\* it runs, and every started run eventually is SUCCESS or FAILED for good,
\* whether invoke returns a state or raises.
C29_LeavesNonTerminal ==
    /\ [](Started =>
            /\ pc = "pending" => workflows[WorkflowId]["status"] = PENDING
            /\ pc \in {"running", "returned", "raised"} =>
                  workflows[WorkflowId]["status"] = RUNNING
            /\ pc = "done" => workflows[WorkflowId]["status"] \in {SUCCESS, FAILED})
    /\ Started ~> [](Started /\ workflows[WorkflowId]["status"] \in {SUCCESS, FAILED})

\* a run whose invoke raised and whose entry became FAILED
C29_Witness ==
    /\ pc = "done"
    /\ exc # None
    /\ workflows[WorkflowId]["status"] = FAILED

----------------------------------------------------------------------------
(* C31: consistency of the failure signals of a run's state *)

SomeStepFailed == \E i \in 1..Len(outcomes) : outcomes[i] = "failed"

----------------------------------------------------------------------------
(* C32: the router after a failed coverage step *)

CoverageFailed == Len(outcomes) >= 2 /\ outcomes[2] = "failed"

\* C32: when the coverage step fails, coverage_before is absent and the router
\* treats it as 0: after a failed check_coverage the node run next is
\* analyze_code exactly when coverage_threshold > 0, otherwise the run ends.
C32_FailedCoverageRoutesOn ==
    CoverageFailed =>
        /\ trace[2] = "check_coverage"
        /\ "coverage_before" \notin DOMAIN state
        /\ should_generate_tests(state) = "analyze_code"
              <=> state["coverage_threshold"] > 0
        /\ IF state["coverage_threshold"] > 0
           THEN IF Len(trace) = 2
                THEN pc = "running" /\ current = "analyze_code"
                ELSE trace[3] = "analyze_code"
           ELSE Len(trace) = 2 /\ current = END /\ pc \in {"returned", "done"}

\* the coverage request failed and analyze_code ran next
C32_Witness ==
    /\ CoverageFailed
    /\ state["errors"] = ListOf(CoverageError)
    /\ Len(trace) >= 3
    /\ trace[3] = "analyze_code"

\* the coverage request failed under a threshold of 0 and the run ended
C32_WitnessZero ==
    /\ CoverageFailed
    /\ state["coverage_threshold"] = 0
    /\ pc = "done"

----------------------------------------------------------------------------
(* C33: current_step *)

\* the current_step value each node writes
StepName(node) ==
    CASE node = "clone_repository" -> "clone"
      [] node = "check_coverage" -> "check_coverage"
      [] node = "analyze_code" -> "analyze_code"
      [] node = "generate_tests" -> "generate_tests"
      [] node = "create_pr" -> "create_pr"
      [] OTHER -> "none"

\* C33: after each node's update is merged, state.current_step names the node
\* that just executed, whether that node succeeded or failed, so the final
\* current_step is always the last node executed.
C33_CurrentStepIsLastNode ==
    (Len(trace) >= 1 /\ Len(outcomes) = Len(trace)
        /\ outcomes[Len(outcomes)] \in {"ok", "failed"}) =>
        Get(state, "current_step") = Some(StepName(trace[Len(trace)]))

\* a node has returned a failure update and current_step names it
C33_Witness ==
    /\ LastFailed
    /\ trace[Len(trace)] = "create_pr"
    /\ Get(state, "current_step") = Some("create_pr")

----------------------------------------------------------------------------
(* C34: the order of the operations inside create_pr_node *)

PrOrder == <<"create_branch", "commit", "push", "create_pull_request">>

\* a call after which the node goes on: a success, or a SKIPPED commit
Passable(call) ==
    \/ is_success(call.result)
    \/ call.operation = "commit" /\ call.result.status = SKIPPED

----------------------------------------------------------------------------
(* C35: git operations on an instance that has not cloned *)

RepoOperations == {"create_branch", "commit", "push"}

NotInitialized == Some(<<"Repository not initialized. Run clone operation first.">>)

\* C35: a GitAgent instance performs create_branch, commit or push only after
\* it has completed a successful clone: on an instance whose repo is unset, run
\* returns a FAILED result (Repository not initialized) for each of these
\* operations, with no data of a performed operation, and an unknown operation
\* name also yields a FAILED result.
C35_RepoOperationsNeedClone ==
    (fn.op = "run_git" /\ fnOut # <<>> /\ "operation" \in DOMAIN fn.context) =>
        LET operation == fn.context["operation"]
            result == fnOut[1]
        IN  /\ (operation \in RepoOperations /\ ~fn.repo) =>
                  /\ result.status = FAILED
                  /\ result.error = NotInitialized
                  /\ result.data = EmptyDict
            /\ (operation \in RepoOperations /\ result.status \in {SUCCESS, SKIPPED}) =>
                  fn.repo
            /\ operation \notin (RepoOperations \cup {"clone"}) =>
                  /\ result.status = FAILED
                  /\ result.error = Some(<<"Unknown operation: ", operation>>)

\* a push on an instance that has not cloned, the remote answering
C35_Witness ==
    /\ fn.op = "run_git"
    /\ fnOut # <<>>
    /\ ~fn.repo
    /\ fn.git = "ok"
    /\ Get(fn.context, "operation") = Some("push")
    /\ fnOut[1].status = FAILED
    /\ fnOut[1].error = NotInitialized

\* an operation name the agent does not know
C35_WitnessUnknown ==
    /\ fn.op = "run_git"
    /\ fnOut # <<>>
    /\ Get(fn.context, "operation") = Some("rebase")
    /\ fnOut[1].status = FAILED

----------------------------------------------------------------------------
(* C36, C37: the calls and sleeps of one call of the retry wrapper *)

RetryFinished == rtPc \in {"returned", "raised"}

\* C36: if func first succeeds on attempt k (1 <= k <= max_attempts) the wrapper
\* returns that attempt's value after exactly k invocations and k - 1 sleeps;
\* func is never invoked after a success and the wrapper never sleeps after its
\* final attempt: an always-failing func with max_attempts = n causes exactly
\* n - 1 sleeps.
C36_SuccessPath ==
    /\ \A i \in 1..(Len(rtCalls) - 1) : rtCalls[i].raised
    /\ Len(rtSleeps) <= Len(rtCalls)
    /\ (Len(rtCalls) >= 1 /\ ~rtCalls[Len(rtCalls)].raised) =>
          /\ rtPc = "returned"
          /\ Len(rtCalls) <= rtCfg.max_attempts
          /\ rtResult = Some(rtCalls[Len(rtCalls)])
          /\ rtCalls[Len(rtCalls)].result.at = Len(rtCalls)
          /\ Len(rtSleeps) = Len(rtCalls) - 1
    /\ rtPc = "returned" => (Len(rtCalls) >= 1 /\ ~rtCalls[Len(rtCalls)].raised)
    /\ (RetryFinished /\ Len(rtCalls) >= 1) => Len(rtSleeps) = Len(rtCalls) - 1
    /\ (rtPc = "raised" /\ rtCfg.max_attempts >= 1 /\ AllCallsFailedRetryably) =>
          Len(rtSleeps) = rtCfg.max_attempts - 1

\* func succeeded on its third attempt, after two sleeps
C36_Witness ==
    /\ rtPc = "returned"
    /\ Len(rtCalls) = 3
    /\ Len(rtSleeps) = 2
    /\ rtResult = Some(rtCalls[3])

\* func failed on each of three attempts
C36_WitnessAllFailed ==
    /\ rtPc = "raised"
    /\ rtCfg.max_attempts = 3
    /\ AllCallsFailedRetryably
    /\ Len(rtSleeps) = 2

\* C37: for every configured max_attempts, including 0 and negative values, the
\* wrapper invokes func at least once and either returns func's value or raises
\* an error that func itself raised.
C37_InvokesAtLeastOnce ==
    RetryFinished =>
        /\ Len(rtCalls) >= 1
        /\ rtResult = Some(rtCalls[Len(rtCalls)])

----------------------------------------------------------------------------
(* C38: when the coverage step fails *)

\* C38: the coverage step fails if and only if the project_key is missing or
\* the metrics request fails: a failure of the coverage-details request alone
\* does not fail the step, which then succeeds with an empty uncovered_files
\* list, and a metrics response lacking a coverage measure yields coverage 0.
C38_FailsIffKeyOrMetricsRequest ==
    (fn.op = "run_sonar" /\ fnOut # <<>>) =>
        LET result == fnOut[1]
        IN  /\ result.status = FAILED
                  <=> ("project_key" \notin DOMAIN fn.context \/ fn.metrics.failed)
            /\ result.status \in {SUCCESS, FAILED}
            /\ (result.status = SUCCESS /\ fn.details.failed) =>
                  result.data["uncovered_files"] = <<>>
            /\ (result.status = SUCCESS /\ "coverage" \notin DOMAIN result.data["metrics"]) =>
                  result.data["coverage"] = 0

====
